---- MODULE Spec2Model ----
(***************************************************************************)
(* PostScheduler of the crosspost plugin (src/src/webhook-handler.js) and  *)
(* the plugin facade that calls it (src/index.js); RateLimiter             *)
(* (src/src/webhook-handler.js) and CrosspostClient                       *)
(* (src/src/crosspost-client.js), which posts to the platforms.            *)
(*                                                                         *)
(* The scheduler's time `now` is counted in units of 60000 ms: the default  *)
(* sweep interval and the base of the retry backoff are both one unit.     *)
(* The rate limiter and the client read the time as `clock`, in units of   *)
(* 1000 ms: the client's default retry delay is one unit.                  *)
(*                                                                         *)
(* Every async function is cut at its awaits: one action per run of code   *)
(* between two suspension points.  A record object is addressed by its id; *)
(* an object that cleanupOldPosts removed from the Map while a task still  *)
(* holds a reference to it lives on in `detached`.                         *)
(***************************************************************************)
EXTENDS Integers, Sequences, FiniteSets, TLC

----------------------------------------------------------------------------
(* Bounds of the model *)

MaxPosts == 2            \* records created in one run
ApiMaxPosts == 1         \* records created in one run of ApiSpec
MaxTime == 2             \* the clock runs from 0 to MaxTime
MaxSweeps == 2           \* sweep ticks that may be in progress at once
MaxTimers == 2           \* setTimeout handles alive at once
MaxAttemptsOpt == 1      \* largest options.maxAttempts passed in
LiveMaxAttempts == 2     \* largest options.maxAttempts passed in, LiveSpec
MaxRestarts == 1         \* process restarts in one run of RestartSpec
MaxRetryAttempts == 6    \* largest attempts and maxAttempts in RetrySpec
ClientMaxTime == 3       \* the clock of limiter and client runs from 0 to it
MaxCalls == 2            \* postToPlatform / waitForReset calls in one run
MaxLimit == 2            \* largest limit passed to setCustomLimit
MaxWindow == 2           \* largest window passed to setCustomLimit
MaxRequests == 3         \* recordRequest calls on one key, limiter specs
MaxRetries == 3          \* largest config.maxRetries
MaxRetryDelay == 2       \* largest config.retryDelay

(* Program constants, in units of 60000 ms *)

RetryBase == 1           \* 60000 ms
RetryCeiling == 5        \* 300000 ms
Horizon == 1440          \* 24 * 60 * 60 * 1000 ms
DefaultMaxAttempts == 3
DayLength == 1440        \* 24 * 60 * 60 * 1000 ms

Ids == 1..MaxPosts
Sweeps == 1..MaxSweeps
Handles == 1..MaxTimers
FarTime == MaxTime + Horizon + 1     \* a scheduledTime beyond the look-ahead
Times == 0..MaxTime
ScheduleTimes == Times \cup {FarTime}
NoTime == -1                         \* an undefined timestamp field
NoValue == "undefined"               \* an undefined result / error field
InvalidTime == -3                    \* the time value NaN of an Invalid Date
AbsentNum == -2                      \* a numeric field or option that is absent
Statuses == {"scheduled", "executing", "completed", "failed", "cancelled"}
Terminal == {"completed", "failed", "cancelled"}

VARIABLES
  now,             \* Date.now()
  isInitialized,   \* CrosspostPlugin.isInitialized
  scheduledPosts,  \* PostScheduler.scheduledPosts : Map id -> record
  detached,        \* record objects deleted from the Map, still referenced
  timers,          \* PostScheduler.timers : Map id -> timeout handle
  timerTasks,      \* the runtime's timeouts and the callbacks they started
  sweeps,          \* checkScheduledPosts invocations in progress
  persisted,       \* content of scheduled-posts.json
  nextId,          \* number of ids generateScheduleId has handed out
  callbackMode,    \* what config.onExecutePost does: resolve, reject or any
  lastCall,        \* outcome of the API call made by the last step, if any
  invoked,         \* history: onExecutePost invocations per id
  earlyCancelled,  \* history: ids cancelled while not yet due
  restarts,        \* number of times the process was started again
  clock,             \* Date.now() as the rate limiter and the client read it
  clientInitialized, \* CrosspostClient.isInitialized
  retryAttempts,     \* CrosspostClient.retryAttempts
  retryDelay,        \* CrosspostClient.retryDelay
  platformLimits,    \* RateLimiter.platformLimits : key -> {limit, window}
  requests,          \* RateLimiter.requests : Map key -> timestamps
  recorded,          \* history: every timestamp recordRequest pushed, per key
  calls,             \* postToPlatform / waitForReset invocations in progress
  lastCheck,         \* result of the last checkLimit call
  postTask,          \* the CrosspostPlugin.post invocation in progress or last made
  intervalId,        \* PostScheduler.intervalId
  intervals,         \* the runtime's active intervals (setInterval, not cleared)
  starts,            \* startScheduler invocations
  stopped,           \* history: stopScheduler returned, no startScheduler call since
  authInitialized,   \* AuthManager.isInitialized
  tokens,            \* AuthManager.tokens : Map platform -> access token
  refreshTokens,     \* AuthManager.refreshTokens : Map platform -> refresh token
  authCalls,         \* authenticate invocations in progress or last made
  lastAuth,          \* the AuthManager call that returned in the last step, if any
  destroying,        \* position of the CrosspostPlugin.destroy invocation, if any
  hooks              \* CrosspostPlugin.hooks : Map event -> callbacks

vars == <<now, isInitialized, scheduledPosts, detached, timers, timerTasks,
          sweeps, persisted, nextId, callbackMode, lastCall, invoked, earlyCancelled,
          restarts, clock, clientInitialized, retryAttempts, retryDelay,
          platformLimits, requests, recorded, calls, lastCheck, postTask,
          intervalId, intervals, starts, stopped,
          authInitialized, tokens, refreshTokens, authCalls, lastAuth, destroying, hooks>>

clientVars == <<clock, clientInitialized, retryAttempts, retryDelay,
                platformLimits, requests, recorded, calls, lastCheck>>

runVars == <<intervalId, intervals, starts, stopped>>

authVars == <<authInitialized, tokens, refreshTokens, authCalls, lastAuth>>

pluginVars == <<postTask, runVars, authVars, destroying, hooks>>

----------------------------------------------------------------------------
(* Pure helpers *)

Min(a, b) == IF a <= b THEN a ELSE b

\* a <= b on time values: a comparison with NaN is false
Lte(a, b) == a # InvalidTime /\ b # InvalidTime /\ a <= b

RECURSIVE Pow2(_)
Pow2(n) == IF n <= 0 THEN 1 ELSE 2 * Pow2(n - 1)

RetryDelayNoCeiling(attempts) == RetryBase * Pow2(attempts - 1)

\* Math.min(300000, 60000 * Math.pow(2, attempts - 1)); attempts >= 1 here
RetryDelay(attempts) == Min(RetryCeiling, RetryBase * Pow2(attempts - 1))

\* options.maxAttempts || 3 : 0 stands for an absent (falsy) option
MaxAttemptsOf(options) == IF options = 0 THEN DefaultMaxAttempts ELSE options

\* the record literal built by PostScheduler.schedulePost
NewPost(id, content, platforms, time, options, t) ==
  [id |-> id, content |-> content, platforms |-> platforms,
   scheduledTime |-> time, options |-> options, status |-> "scheduled",
   createdAt |-> t, attempts |-> 0, maxAttempts |-> MaxAttemptsOf(options),
   updatedAt |-> NoTime, completedAt |-> NoTime, failedAt |-> NoTime,
   cancelledAt |-> NoTime, lastAttemptAt |-> NoTime,
   result |-> NoValue, error |-> NoValue]

\* synchronous head of executeScheduledPost, up to the await of the callback
ExecuteBegin(post, t) ==
  [post EXCEPT !.status = "executing", !.attempts = @ + 1, !.lastAttemptAt = t]

\* executeScheduledPost after the callback resolved
ExecuteSuccess(post, t) ==
  [post EXCEPT !.status = "completed", !.completedAt = t, !.result = "result"]

HandleErrorKeepsExecuting(post, t) ==
  IF post.attempts >= post.maxAttempts
    THEN [post EXCEPT !.status = "failed", !.failedAt = t, !.error = "message"]
    ELSE [post EXCEPT !.scheduledTime = t + RetryDelay(post.attempts)]

\* the record changes of handlePostExecutionError
HandlePostExecutionError(post, t) ==
  IF post.attempts >= post.maxAttempts
    THEN [post EXCEPT !.status = "failed", !.failedAt = t, !.error = "message"]
    ELSE [post EXCEPT !.status = "scheduled",
                      !.scheduledTime = t + RetryDelay(post.attempts)]

\* function f with key k bound to v / with key k removed
Put(f, k, v) == [x \in (DOMAIN f) \cup {k} |-> IF x = k THEN v ELSE f[x]]
Drop(f, k) == [x \in (DOMAIN f) \ {k} |-> f[x]]

EmptyMap == [x \in {} |-> 0]

\* the record object that id refers to, in the Map or detached from it
HasObj(id) == id \in DOMAIN scheduledPosts \/ id \in DOMAIN detached
Obj(id) == IF id \in DOMAIN scheduledPosts THEN scheduledPosts[id] ELSE detached[id]

ObjIn(m, d, id) == IF id \in DOMAIN m THEN m[id] ELSE d[id]

\* the Map m and the detached objects d after the object of id became r
MapWith(m, id, r) == IF id \in DOMAIN m THEN Put(m, id, r) ELSE m
DetachedWith(m, d, id, r) == IF id \in DOMAIN m THEN d ELSE Put(d, id, r)

----------------------------------------------------------------------------
(* The storage file scheduled-posts.json *)

\* A Date in the JSON text: JSON.stringify leaves an undefined field out,
\* writes an Invalid Date as null and any other Date as its ISO string, which
\* keeps the milliseconds.
AbsentDate == [kind |-> "absent", ms |-> 0]
NullDate == [kind |-> "null", ms |-> 0]
DateToJSON(t) ==
  IF t = NoTime THEN AbsentDate
  ELSE IF t = InvalidTime THEN NullDate
  ELSE [kind |-> "string", ms |-> t]

\* new Date(value) on a parsed value: new Date(null) is the epoch
NewDate(j) ==
  IF j.kind = "string" THEN j.ms
  ELSE IF j.kind = "null" THEN 0
  ELSE InvalidTime

\* if (post.f) post.f = new Date(post.f): a missing or null field stays as
\* it is
OptionalDate(j) == IF j.kind = "string" THEN NewDate(j) ELSE NoTime

\* one record in the JSON text
StringifyPost(post) ==
  [post EXCEPT !.scheduledTime = DateToJSON(@), !.createdAt = DateToJSON(@),
               !.updatedAt = DateToJSON(@), !.completedAt = DateToJSON(@),
               !.failedAt = DateToJSON(@), !.cancelledAt = DateToJSON(@),
               !.lastAttemptAt = DateToJSON(@)]

\* the loop body of loadScheduledPosts
ParsePost(j) ==
  [j EXCEPT !.scheduledTime = NewDate(@), !.createdAt = NewDate(@),
            !.updatedAt = OptionalDate(@), !.completedAt = OptionalDate(@),
            !.failedAt = OptionalDate(@), !.cancelledAt = OptionalDate(@),
            !.lastAttemptAt = OptionalDate(@)]

\* the file before the first save
NoFile == [exists |-> FALSE, posts |-> EmptyMap]

\* saveScheduledPosts: the file written from the Map m
SaveScheduledPosts(m) ==
  [exists |-> TRUE, posts |-> [id \in DOMAIN m |-> StringifyPost(m[id])]]

\* loadScheduledPosts: the Map read from the file; a missing file (ENOENT)
\* ends in the catch block with an empty Map
LoadScheduledPosts(file) ==
  IF file.exists
    THEN [id \in DOMAIN file.posts |-> ParsePost(file.posts[id])]
    ELSE EmptyMap

RECURSIVE SeqToSet(_)
SeqToSet(s) == IF s = <<>> THEN {} ELSE {Head(s)} \cup SeqToSet(Tail(s))

\* ids in increasing order: the Map iterates in insertion order and
\* generateScheduleId is modelled as handing out 1, 2, ...
RECURSIVE SortedSeq(_)
SortedSeq(S) ==
  IF S = {} THEN <<>>
  ELSE LET m == CHOOSE x \in S : \A y \in S : x <= y
       IN <<m>> \o SortedSeq(S \ {m})

----------------------------------------------------------------------------
(* Tasks *)

NoCall == [op |-> "none", ok |-> TRUE, id |-> 0, time |-> NoTime,
           content |-> "", platforms |-> <<>>, error |-> ""]
FreeTimer == [pc |-> "free", id |-> 0, at |-> 0]
IdleSweep == [pc |-> "idle", queue |-> <<>>]
Running == {"callback"}

\* ids whose record object a task in progress holds a reference to
Referenced(sw, tt) ==
  UNION {SeqToSet(sw[s].queue) : s \in Sweeps}
    \cup {tt[h].id : h \in {x \in Handles : tt[x].pc \in Running}}

\* detached objects nobody refers to any more are garbage
Collect(det, sw, tt) ==
  [x \in (DOMAIN det) \cap Referenced(sw, tt) |-> det[x]]

\* calls of onExecutePost in flight for id
InFlight(id) ==
  Cardinality({s \in Sweeps : sweeps[s].pc = "callback" /\ Head(sweeps[s].queue) = id})
  + Cardinality({h \in Handles : timerTasks[h].pc = "callback" /\ timerTasks[h].id = id})

\* clearTimeout(handle): a timeout that has fired already is not affected
ClearTimeout(tt, h) ==
  IF tt[h].pc = "armed" THEN [tt EXCEPT ![h] = FreeTimer] ELSE tt

\* timers.has(id) ? clearTimeout(timers.get(id)), timers.delete(id)
ClearTimerOf(tt, tm, id) ==
  IF id \in DOMAIN tm THEN ClearTimeout(tt, tm[id]) ELSE tt

HandleFree(tt, tm, h) == tt[h].pc = "free" /\ \A k \in DOMAIN tm : tm[k] # h
HasFreeHandle(tt, tm) == \E h \in Handles : HandleFree(tt, tm, h)
NewHandle(tt, tm) ==
  CHOOSE h \in Handles : HandleFree(tt, tm, h)
                         /\ \A g \in Handles : HandleFree(tt, tm, g) => h <= g

\* setTimer(id, delay): setTimeout, then timers.set(id, handle)
SetTimerTasks(tt, tm, id, delay) ==
  [tt EXCEPT ![NewHandle(tt, tm)] = [pc |-> "armed", id |-> id, at |-> now + delay]]
SetTimerMap(tt, tm, id) == Put(tm, id, NewHandle(tt, tm))

----------------------------------------------------------------------------
(* The execution callback config.onExecutePost *)

\* callbackMode "resolve", "reject", "any": a callback that resolves, that
\* rejects, that does either.  The other modes stand for the callback the
\* plugin installs, CrosspostPlugin.executeScheduledPost, with the platform
\* calls failing or succeeding.
PluginModes == {"platformsFail", "platformsOk"}

\* how the postToPlatform promise of each platform settles
PlatformOutcomes(mode) ==
  IF mode = "platformsFail" THEN <<"rejected">> ELSE <<"fulfilled">>

\* CrosspostPlugin.post: throws when the plugin is not initialized; otherwise
\* Promise.allSettled collects the outcomes and the summary is returned
Post(initialized, outcomes) ==
  LET failedPosts == {i \in DOMAIN outcomes : outcomes[i] = "rejected"}
  IN IF ~initialized
       THEN [settles |-> "reject", success |-> FALSE]
       ELSE [settles |-> "resolve", success |-> failedPosts = {}]

CallbackMayResolve ==
  \/ callbackMode \in {"any", "resolve"}
  \/ /\ callbackMode \in PluginModes
     /\ Post(isInitialized, PlatformOutcomes(callbackMode)).settles = "resolve"

CallbackMayReject ==
  \/ callbackMode \in {"any", "reject"}
  \/ /\ callbackMode \in PluginModes
     /\ Post(isInitialized, PlatformOutcomes(callbackMode)).settles = "reject"

----------------------------------------------------------------------------
(* RateLimiter *)

\* the model has two of the five platforms of the platformLimits table and
\* of the client's switch; content carries no media, so no `uploads`
\* request is made
Platforms == {"twitter", "mastodon"}
UnsupportedPlatform == "myspace"

\* the key `${platform}:${operation}`
Key(platform, operation) == <<platform, operation>>
PostsKey(platform) == Key(platform, "posts")

TwitterLimit == 300
TwitterWindow == 900       \* 15 * 60 * 1000 ms
MastodonLimit == 300
MastodonWindow == 300      \* 5 * 60 * 1000 ms

\* platformLimits as the constructor builds it
DefaultLimits ==
  [k \in Platforms \X {"posts", "uploads"} |->
     IF k[1] = "twitter" THEN [limit |-> TwitterLimit, window |-> TwitterWindow]
     ELSE [limit |-> MastodonLimit, window |-> MastodonWindow]]

Null == -4                 \* the value null of a result field

Max(a, b) == IF a >= b THEN a ELSE b

\* Math.min(...s) of a non-empty array
MinOfSeq(s) == CHOOSE x \in SeqToSet(s) : \A y \in SeqToSet(s) : x <= y

\* this.requests.get(key), [] when the Map has no entry
RequestsOf(reqMap, key) == IF key \in DOMAIN reqMap THEN reqMap[key] ELSE <<>>

ValidRequestsInclusive(reqs, windowStart) ==
  SelectSeq(reqs, LAMBDA ts : ts >= windowStart)

\* requests.filter(timestamp => timestamp > windowStart)
ValidRequests(reqs, windowStart) == SelectSeq(reqs, LAMBDA ts : ts > windowStart)

CheckLimitResultNoClamp(limits, reqMap, key, t) ==
  IF key \notin DOMAIN limits
  THEN [allowed |-> TRUE, remaining |-> Null, resetTime |-> Null,
        retryAfter |-> AbsentNum]
  ELSE LET limit == limits[key]
           windowStart == t - limit.window
           validRequests == ValidRequests(RequestsOf(reqMap, key), windowStart)
           allowed == Len(validRequests) < limit.limit
           resetTime == IF Len(validRequests) > 0
                        THEN MinOfSeq(validRequests) + limit.window
                        ELSE t + limit.window
       IN [allowed |-> allowed,
           remaining |-> limit.limit - Len(validRequests),
           resetTime |-> resetTime,
           retryAfter |-> IF allowed THEN 0 ELSE resetTime - t]

\* what checkLimit returns at time t
CheckLimitResult(limits, reqMap, key, t) ==
  IF key \notin DOMAIN limits
  THEN [allowed |-> TRUE, remaining |-> Null, resetTime |-> Null,
        retryAfter |-> AbsentNum]
  ELSE LET limit == limits[key]
           windowStart == t - limit.window
           validRequests == ValidRequests(RequestsOf(reqMap, key), windowStart)
           allowed == Len(validRequests) < limit.limit
           resetTime == IF Len(validRequests) > 0
                        THEN MinOfSeq(validRequests) + limit.window
                        ELSE t + limit.window
       IN [allowed |-> allowed,
           remaining |-> Max(0, limit.limit - Len(validRequests)),
           resetTime |-> resetTime,
           retryAfter |-> IF allowed THEN 0 ELSE resetTime - t]

CheckLimitRequestsDropAll(limits, reqMap, key, t) ==
  IF key \notin DOMAIN limits THEN reqMap ELSE Put(reqMap, key, <<>>)

\* this.requests after checkLimit at time t: the entry of the key is pruned
CheckLimitRequests(limits, reqMap, key, t) ==
  IF key \notin DOMAIN limits THEN reqMap
  ELSE Put(reqMap, key,
           ValidRequests(RequestsOf(reqMap, key), t - limits[key].window))

\* this.requests after recordRequest at time t
RecordRequestIn(reqMap, key, t) == Put(reqMap, key, Append(RequestsOf(reqMap, key), t))

NoKey == Key("", "")
NoCheck == [key |-> NoKey, at |-> 0, seen |-> 0, allowed |-> TRUE,
            remaining |-> Null, resetTime |-> Null, retryAfter |-> AbsentNum]

\* the checkLimit result with the key, the time of the call and the number
\* of requests recorded for the key so far
CheckRecord(key, t) ==
  LET r == CheckLimitResult(platformLimits, requests, key, t)
  IN [key |-> key, at |-> t, seen |-> Len(RequestsOf(recorded, key)),
      allowed |-> r.allowed, remaining |-> r.remaining,
      resetTime |-> r.resetTime, retryAfter |-> r.retryAfter]

----------------------------------------------------------------------------
(* CrosspostClient *)

DefaultRetryAttempts == 3
DefaultRetryDelay == 1     \* 1000 ms

\* config.maxRetries || 3 and config.retryDelay || 1000; 0 stands for an
\* absent option and is falsy itself
MaxRetriesOf(option) == IF option = 0 THEN DefaultRetryAttempts ELSE option
RetryDelayOf(option) == IF option = 0 THEN DefaultRetryDelay ELSE option

\* error messages are sequences of characters
UpperCase == <<"A", "B", "C", "D", "E", "F", "G", "H", "I", "J", "K", "L", "M", "N", "O", "P", "Q", "R", "S", "T", "U", "V", "W", "X", "Y", "Z">>
LowerCase == <<"a", "b", "c", "d", "e", "f", "g", "h", "i", "j", "k", "l", "m", "n", "o", "p", "q", "r", "s", "t", "u", "v", "w", "x", "y", "z">>

ToLowerChar(c) ==
  IF \E i \in DOMAIN UpperCase : UpperCase[i] = c
  THEN LowerCase[CHOOSE i \in DOMAIN UpperCase : UpperCase[i] = c]
  ELSE c

\* String.prototype.toLowerCase
ToLowerCase(s) == [i \in DOMAIN s |-> ToLowerChar(s[i])]

\* String.prototype.includes
Includes(s, sub) ==
  \E i \in 1..(Len(s) - Len(sub) + 1) : SubSeq(s, i, i + Len(sub) - 1) = sub

nonRetryableMessages ==
  {<<"i", "n", "v", "a", "l", "i", "d", " ", "c", "r", "e", "d", "e", "n", "t", "i", "a", "l", "s">>,
   <<"u", "n", "a", "u", "t", "h", "o", "r", "i", "z", "e", "d">>,
   <<"f", "o", "r", "b", "i", "d", "d", "e", "n">>,
   <<"n", "o", "t", " ", "f", "o", "u", "n", "d">>,
   <<"d", "u", "p", "l", "i", "c", "a", "t", "e">>,
   <<"i", "n", "v", "a", "l", "i", "d", " ", "m", "e", "d", "i", "a">>,
   <<"c", "o", "n", "t", "e", "n", "t", " ", "t", "o", "o", " ", "l", "o", "n", "g">>}

\* isNonRetryableError(error), on the message of the error
IsNonRetryableError(message) ==
  \E msg \in nonRetryableMessages : Includes(ToLowerCase(message), msg)

\* messages a platform call fails with in the model
MsgTimeout == <<"t", "i", "m", "e", "o", "u", "t">>
MsgBusy == <<"B", "u", "s", "y">>
MsgUnauthorized == <<"U", "n", "a", "u", "t", "h", "o", "r", "i", "z", "e", "d">>
PlatformMessages == {MsgTimeout, MsgBusy, MsgUnauthorized}

NoError == [text |-> "", platform |-> "", attempts |-> 0, message |-> <<>>]

\* new Error('Client not initialized')
NotInitializedError ==
  [text |-> "Client not initialized", platform |-> "", attempts |-> 0, message |-> <<>>]

\* new Error(`Unsupported platform: ${platform}`)
UnsupportedError(platform) ==
  [text |-> "Unsupported platform", platform |-> platform, attempts |-> 0,
   message |-> <<>>]

\* the error object the platform call of the given attempt threw
PlatformError(platform, attempt, message) ==
  [text |-> "platform error", platform |-> platform, attempts |-> attempt,
   message |-> message]

\* new Error(`Failed to post to ${platform} after ${this.retryAttempts}
\* attempts: ${lastError.message}`)
ExhaustedError(platform, attempts, lastError) ==
  [text |-> "Failed to post", platform |-> platform, attempts |-> attempts,
   message |-> lastError.message]

BackoffConstant(delay, attempt) == delay

\* this.retryDelay * Math.pow(2, attempt - 1)
Backoff(delay, attempt) == delay * Pow2(attempt - 1)

\* no post call made yet; state and slot tell, per platform of the list,
\* how far its branch of the Promise.allSettled got and which call it made;
\* events are the events emitted so far, emitted and running the callbacks
\* of the emit in progress and those of them that have not settled; before,
\* done and threw tell how many before-post hooks were called, which of
\* them completed and the events a hook of which threw; caught is the error the
\* catch block received; successful, failed and summary are those of the
\* result
NoPost == [pc |-> "idle", platforms |-> <<>>, state |-> <<>>, slot |-> <<>>,
           error |-> NoError, success |-> FALSE,
           events |-> <<>>, emitted |-> <<>>, running |-> {},
           before |-> 0, done |-> {}, threw |-> {}, caught |-> NoError,
           successful |-> <<>>, failed |-> <<>>,
           summary |-> [total |-> 0, successful |-> 0, failed |-> 0]]

Calls == 1..MaxCalls

IdleCall ==
  [op |-> "none", platform |-> "", pc |-> "idle", attempt |-> 0, wakeAt |-> 0,
   seen |-> 0, slept |-> FALSE, made |-> 0, records |-> 0, waits |-> <<>>,
   lastError |-> NoError, error |-> NoError, result |-> 0, failures |-> <<>>]

\* startScheduler invocations: pc is "idle", "checking" (awaiting the
\* checkScheduledPosts it started in sweep slot `slot`), "checked" (the
\* check found nothing due) or "returned"
MaxStarts == 2
StartCalls == 1..MaxStarts
Intervals == 1..MaxStarts
IdleStart == [pc |-> "idle", slot |-> 0]

\* the constructor of PostScheduler: no interval
RunInit ==
  /\ intervalId = Null
  /\ intervals = {}
  /\ starts = [t \in StartCalls |-> IdleStart]
  /\ stopped = FALSE

\* the events post emits, and a plugin without hooks; a hook is modelled by
\* what its callback does: "ok" or "throws"
HookEvents == {"before-post", "after-post", "on-error"}
NoHooks == [e \in HookEvents |-> <<>>]

\* authenticate invocations in progress: pc is "idle", "exchanging"
\* (awaiting exchangeCodeForToken) or "saving" (awaiting saveTokens);
\* changed: the platforms that had no token until this call stored one;
\* dropped: revokeAuth or destroy removed the token this call had stored
MaxAuthCalls == 2

\* at most this many hooks are registered
MaxHooks == 2
AuthCalls == 1..MaxAuthCalls
IdleAuth == [pc |-> "idle", platform |-> "", changed |-> {}, dropped |-> FALSE]
NoAuth == [op |-> "none", platform |-> "", code |-> FALSE, ok |-> TRUE,
           success |-> FALSE, authUrl |-> FALSE, state |-> FALSE, changed |-> {},
           dropped |-> FALSE]

\* the constructor of AuthManager
AuthInit ==
  /\ authInitialized = FALSE
  /\ tokens = EmptyMap
  /\ refreshTokens = EmptyMap
  /\ authCalls = [a \in AuthCalls |-> IdleAuth]
  /\ lastAuth = NoAuth

\* a freshly constructed client and rate limiter, default configuration
ClientInit ==
  /\ clock = 0
  /\ clientInitialized = FALSE
  /\ retryAttempts = MaxRetriesOf(0)
  /\ retryDelay = RetryDelayOf(0)
  /\ platformLimits = DefaultLimits
  /\ requests = EmptyMap
  /\ recorded = EmptyMap
  /\ calls = [c \in Calls |-> IdleCall]
  /\ lastCheck = NoCheck
  /\ postTask = NoPost
  /\ RunInit
  /\ AuthInit
  /\ destroying = "idle"
  /\ hooks = NoHooks

----------------------------------------------------------------------------
(* Initial state: a freshly constructed plugin, no storage file *)

Init ==
  /\ now = 0
  /\ isInitialized = FALSE
  /\ scheduledPosts = EmptyMap
  /\ detached = EmptyMap
  /\ timers = EmptyMap
  /\ timerTasks = [h \in Handles |-> FreeTimer]
  /\ sweeps = [s \in Sweeps |-> IdleSweep]
  /\ persisted = NoFile
  /\ nextId = 0
  /\ callbackMode = "any"
  /\ lastCall = NoCall
  /\ invoked = [i \in Ids |-> 0]
  /\ earlyCancelled = {}
  /\ restarts = 0
  /\ ClientInit

\* time passes
Tick ==
  /\ now < MaxTime
  /\ now' = now + 1
  /\ lastCall' = NoCall
  /\ UNCHANGED <<isInitialized, scheduledPosts, detached, timers, timerTasks,
                 sweeps, persisted, nextId, callbackMode, invoked, earlyCancelled, restarts,
                 clientVars, pluginVars>>

\* CrosspostPlugin.initialize: scheduler.initialize loads the stored records
\* and starts the sweep interval
Initialize ==
  /\ ~isInitialized
  /\ isInitialized' = TRUE
  /\ authInitialized' = TRUE
  /\ clientInitialized' = TRUE
  /\ scheduledPosts' = LoadScheduledPosts(persisted)
  /\ lastCall' = [NoCall EXCEPT !.op = "initialize"]
  /\ UNCHANGED <<now, detached, timers, timerTasks, sweeps, persisted, nextId,
                 callbackMode, invoked, earlyCancelled, restarts>>
  /\ UNCHANGED <<clock, retryAttempts, retryDelay, platformLimits, requests,
                 recorded, calls, lastCheck, postTask, runVars,
                 tokens, refreshTokens, authCalls, lastAuth, destroying, hooks>>

----------------------------------------------------------------------------
(* API calls *)

OptionValues == 0..MaxAttemptsOpt        \* options.maxAttempts, 0 = absent

PastTimeOffByOne(time) == time < now

\* the test `scheduleDate <= new Date()` of CrosspostPlugin.schedulePost
PastTime(time) == Lte(time, now)

\* CrosspostPlugin.schedulePost rejecting the call
SchedulePostRejected(time) ==
  /\ ~isInitialized \/ PastTime(time)
  /\ UNCHANGED <<now, isInitialized, scheduledPosts, detached, timers, timerTasks,
                 sweeps, persisted, nextId, callbackMode, invoked, earlyCancelled, restarts,
                 clientVars, pluginVars>>

\* The ids generateScheduleId can return: the text "schedule_", Date.now()
\* and nine digits of Math.random().  Ids are numbered in the order in which
\* they first appear, so a new id is nextId + 1; an id in use can come again
\* while Date.now() has the value it had when that record was created.  (The
\* model leaves out the case of a record that a callback in flight refers to.)
GeneratedIds ==
  {nextId + 1} \cup {id \in DOMAIN scheduledPosts :
                       scheduledPosts[id].createdAt = now /\ InFlight(id) = 0}

\* CrosspostPlugin.schedulePost passing the call on to
\* PostScheduler.schedulePost, with id the value of generateScheduleId: new
\* record, Map.set, save, timer when within 24 h
SchedulePostAs(id, content, platforms, time, options) ==
  LET timeUntilPost == time - now
      arm == time # InvalidTime /\ timeUntilPost <= Horizon
  IN /\ isInitialized /\ ~PastTime(time)
     /\ arm => HasFreeHandle(timerTasks, timers)
     /\ nextId' = nextId + 1
     /\ scheduledPosts' = Put(scheduledPosts, id,
                              NewPost(id, content, platforms, time, options, now))
     /\ persisted' = SaveScheduledPosts(scheduledPosts')
     /\ timerTasks' = IF arm THEN SetTimerTasks(timerTasks, timers, id, timeUntilPost)
                             ELSE timerTasks
     /\ timers' = IF arm THEN SetTimerMap(timerTasks, timers, id) ELSE timers
     /\ UNCHANGED <<now, isInitialized, detached, sweeps, callbackMode, invoked,
                    earlyCancelled, restarts,
                 clientVars, pluginVars>>

\* schedulePost when the generated id is not in use
SchedulePostAccepted(content, platforms, time, options) ==
  SchedulePostAs(nextId + 1, content, platforms, time, options)

ScheduleResultAsPastFirst(id, content, platforms, time) ==
  IF ~isInitialized \/ PastTime(time)
    THEN [op |-> "schedulePost", ok |-> FALSE, id |-> 0, time |-> time,
          content |-> content, platforms |-> platforms,
          error |-> IF PastTime(time) THEN "Scheduled time must be in the future"
                                      ELSE "Plugin not initialized"]
    ELSE [op |-> "schedulePost", ok |-> TRUE, id |-> id, time |-> time,
          content |-> content, platforms |-> platforms, error |-> ""]

\* The call and what it returns: ok = FALSE stands for a thrown Error (error
\* is its message), id is the scheduleId returned; time, platforms and
\* content are the fields of the same names (for a thrown Error: the
\* arguments of the call).
ScheduleResultAs(id, content, platforms, time) ==
  IF ~isInitialized \/ PastTime(time)
    THEN [op |-> "schedulePost", ok |-> FALSE, id |-> 0, time |-> time,
          content |-> content, platforms |-> platforms,
          error |-> IF ~isInitialized THEN "Plugin not initialized"
                                      ELSE "Scheduled time must be in the future"]
    ELSE [op |-> "schedulePost", ok |-> TRUE, id |-> id, time |-> time,
          content |-> content, platforms |-> platforms, error |-> ""]

ScheduleResult(content, platforms, time) ==
  ScheduleResultAs(nextId + 1, content, platforms, time)

CancelAllowedAnyStatus(id) == id \in DOMAIN scheduledPosts

\* the two guards at the head of cancelScheduledPost
CancelAllowed(id) ==
  id \in DOMAIN scheduledPosts /\ scheduledPosts[id].status = "scheduled"

\* PostScheduler.cancelScheduledPost
CancelScheduledPost(id) ==
  IF ~CancelAllowed(id)
  THEN UNCHANGED <<now, isInitialized, scheduledPosts, detached, timers,
                   timerTasks, sweeps, persisted, nextId, callbackMode, invoked,
                   earlyCancelled, restarts,
                 clientVars, pluginVars>>
  ELSE /\ timerTasks' = ClearTimerOf(timerTasks, timers, id)
       /\ timers' = Drop(timers, id)
       /\ scheduledPosts' = [scheduledPosts EXCEPT ![id].status = "cancelled",
                                                   ![id].cancelledAt = now]
       /\ persisted' = SaveScheduledPosts(scheduledPosts')
       /\ earlyCancelled' = IF now < scheduledPosts[id].scheduledTime
                              THEN earlyCancelled \cup {id} ELSE earlyCancelled
       /\ UNCHANGED <<now, isInitialized, detached, sweeps, nextId, callbackMode,
                      invoked, restarts, clientVars, pluginVars>>

CancelResult(id) ==
  [NoCall EXCEPT !.op = "cancelScheduledPost", !.ok = CancelAllowed(id), !.id = id]

\* An updates object: one field per key the model passes, each either absent
\* or a value.  The keys status, attempts and maxAttempts are not in
\* allowedUpdates.
AbsentStr == "absent"
NoUpdates == [content |-> AbsentStr, platforms |-> <<>>, scheduledTime |-> AbsentNum,
              options |-> AbsentNum, status |-> AbsentStr, attempts |-> AbsentNum,
              maxAttempts |-> AbsentNum]
AllowedOnly ==
  {[NoUpdates EXCEPT !.content = "text2"],
   [NoUpdates EXCEPT !.platforms = <<"twitter", "linkedin">>],
   [NoUpdates EXCEPT !.options = 1]}
    \cup {[NoUpdates EXCEPT !.scheduledTime = t] : t \in ScheduleTimes}
IgnoredOnly ==
  {NoUpdates,
   [NoUpdates EXCEPT !.status = "scheduled"],
   [NoUpdates EXCEPT !.status = "completed"],
   [NoUpdates EXCEPT !.attempts = 0],
   [NoUpdates EXCEPT !.maxAttempts = 1]}
Updates ==
  AllowedOnly \cup IgnoredOnly
    \cup {[u EXCEPT !.status = "scheduled", !.attempts = 0] : u \in AllowedOnly}

\* the updates objects of the concurrency specification: a new time only
CoreUpdates == {[NoUpdates EXCEPT !.scheduledTime = MaxTime]}

ApplyUpdatesAnyKey(post, u, t) ==
  [post EXCEPT
     !.content = IF u.content # AbsentStr THEN u.content ELSE @,
     !.platforms = IF u.platforms # <<>> THEN u.platforms ELSE @,
     !.options = IF u.options # AbsentNum THEN u.options ELSE @,
     !.scheduledTime = IF u.scheduledTime # AbsentNum THEN u.scheduledTime ELSE @,
     !.status = IF u.status # AbsentStr THEN u.status ELSE @,
     !.attempts = IF u.attempts # AbsentNum THEN u.attempts ELSE @,
     !.maxAttempts = IF u.maxAttempts # AbsentNum THEN u.maxAttempts ELSE @,
     !.updatedAt = t]

\* the record after the loop over Object.entries(updates) and the updatedAt
\* assignment: only keys in allowedUpdates are copied
ApplyUpdates(post, u, t) ==
  [post EXCEPT
     !.content = IF u.content # AbsentStr THEN u.content ELSE @,
     !.platforms = IF u.platforms # <<>> THEN u.platforms ELSE @,
     !.options = IF u.options # AbsentNum THEN u.options ELSE @,
     !.scheduledTime = IF u.scheduledTime # AbsentNum THEN u.scheduledTime ELSE @,
     !.updatedAt = t]

\* PostScheduler.updateScheduledPost
UpdateScheduledPost(id, u) ==
  IF id \notin DOMAIN scheduledPosts
  THEN UNCHANGED <<now, isInitialized, scheduledPosts, detached, timers,
                   timerTasks, sweeps, persisted, nextId, callbackMode, invoked,
                   earlyCancelled, restarts,
                 clientVars, pluginVars>>
  ELSE LET retime == u.scheduledTime # AbsentNum
           timeUntilPost == u.scheduledTime - now
           arm == /\ retime /\ u.scheduledTime # InvalidTime
                  /\ timeUntilPost > 0 /\ timeUntilPost <= Horizon
           tt1 == IF retime THEN ClearTimerOf(timerTasks, timers, id) ELSE timerTasks
           tm1 == IF retime THEN Drop(timers, id) ELSE timers
       IN /\ arm => HasFreeHandle(tt1, tm1)
          /\ timerTasks' = IF arm THEN SetTimerTasks(tt1, tm1, id, timeUntilPost) ELSE tt1
          /\ timers' = IF arm THEN SetTimerMap(tt1, tm1, id) ELSE tm1
          /\ scheduledPosts' = [scheduledPosts EXCEPT
                                  ![id] = ApplyUpdates(scheduledPosts[id], u, now)]
          /\ persisted' = SaveScheduledPosts(scheduledPosts')
          /\ UNCHANGED <<now, isInitialized, detached, sweeps, nextId, callbackMode,
                         invoked, earlyCancelled, restarts,
                 clientVars, pluginVars>>

UpdateResult(id) ==
  [NoCall EXCEPT !.op = "updateScheduledPost", !.ok = id \in DOMAIN scheduledPosts,
                 !.id = id]

ShouldCleanupInclusive(post, cutoff) ==
  \/ post.status = "completed" /\ post.completedAt # NoTime /\ post.completedAt <= cutoff
  \/ post.status = "failed" /\ post.failedAt # NoTime /\ post.failedAt <= cutoff
  \/ post.status = "cancelled" /\ post.cancelledAt # NoTime /\ post.cancelledAt <= cutoff

\* the shouldCleanup test of cleanupOldPosts; a comparison with an undefined
\* timestamp is false
ShouldCleanup(post, cutoff) ==
  \/ post.status = "completed" /\ post.completedAt # NoTime /\ post.completedAt < cutoff
  \/ post.status = "failed" /\ post.failedAt # NoTime /\ post.failedAt < cutoff
  \/ post.status = "cancelled" /\ post.cancelledAt # NoTime /\ post.cancelledAt < cutoff

CleanupDays == {0, 1}

CleanupOnlyFirst(olderThanDays) ==
  LET cutoff == now - olderThanDays * DayLength
      all == {id \in DOMAIN scheduledPosts : ShouldCleanup(scheduledPosts[id], cutoff)}
      gone == {id \in all : \A k \in all : id <= k}
      kept == [id \in (DOMAIN scheduledPosts) \ gone |-> scheduledPosts[id]]
      held == gone \cap Referenced(sweeps, timerTasks)
  IN /\ scheduledPosts' = kept
     /\ detached' = [id \in (DOMAIN detached) \cup held |->
                       IF id \in held THEN scheduledPosts[id] ELSE detached[id]]
     /\ persisted' = IF Cardinality(gone) > 0 THEN SaveScheduledPosts(kept) ELSE persisted
     /\ UNCHANGED <<now, isInitialized, timers, timerTasks, sweeps, nextId,
                    callbackMode, invoked, earlyCancelled, restarts,
                 clientVars, pluginVars>>

\* PostScheduler.cleanupOldPosts
CleanupOldPosts(olderThanDays) ==
  LET cutoff == now - olderThanDays * DayLength
      gone == {id \in DOMAIN scheduledPosts : ShouldCleanup(scheduledPosts[id], cutoff)}
      kept == [id \in (DOMAIN scheduledPosts) \ gone |-> scheduledPosts[id]]
      held == gone \cap Referenced(sweeps, timerTasks)
  IN /\ scheduledPosts' = kept
     /\ detached' = [id \in (DOMAIN detached) \cup held |->
                       IF id \in held THEN scheduledPosts[id] ELSE detached[id]]
     /\ persisted' = IF Cardinality(gone) > 0 THEN SaveScheduledPosts(kept) ELSE persisted
     /\ UNCHANGED <<now, isInitialized, timers, timerTasks, sweeps, nextId,
                    callbackMode, invoked, earlyCancelled, restarts,
                 clientVars, pluginVars>>

\* cleanedCount, returned in the id field; the time field holds the cutoff
CleanupResult(olderThanDays) ==
  [NoCall EXCEPT
     !.op = "cleanupOldPosts",
     !.time = now - olderThanDays * DayLength,
     !.id = Cardinality({id \in DOMAIN scheduledPosts :
              ShouldCleanup(scheduledPosts[id], now - olderThanDays * DayLength)})]

----------------------------------------------------------------------------
(* The periodic sweep: checkScheduledPosts *)

\* the filter of the first loop of checkScheduledPosts
Due(post, t) == post.status = "scheduled" /\ Lte(post.scheduledTime, t)

PostsToExecute ==
  SortedSeq({id \in DOMAIN scheduledPosts : Due(scheduledPosts[id], now)})

IdleSlots == {s \in Sweeps : sweeps[s].pc = "idle"}
NextSlot == CHOOSE s \in IdleSlots : \A r \in IdleSlots : s <= r

\* An interval tick runs checkScheduledPosts: it collects the due records
\* and runs executeScheduledPost on the first one up to the await of the
\* callback.
SweepStart ==
  LET q == PostsToExecute
      first == Head(q)
  IN /\ isInitialized
     /\ IdleSlots # {}
     /\ q # <<>>
     /\ sweeps' = [sweeps EXCEPT ![NextSlot] = [pc |-> "callback", queue |-> q]]
     /\ scheduledPosts' = [scheduledPosts EXCEPT ![first] = ExecuteBegin(@, now)]
     /\ invoked' = [invoked EXCEPT ![first] = @ + 1]
     /\ lastCall' = NoCall
     /\ UNCHANGED <<now, isInitialized, detached, timers, timerTasks, persisted,
                    nextId, callbackMode, earlyCancelled, restarts,
                 clientVars, pluginVars>>

\* The second loop of checkScheduledPosts after the current record is done
\* (m, d: the Map and the detached objects at that point): the save is
\* written, then the next collected record is executed, without looking at
\* its status again, up to the await of its callback; or the sweep ends.
SweepContinue(s, m, d) ==
  LET rest == Tail(sweeps[s].queue)
      next == Head(rest)
      r == ExecuteBegin(ObjIn(m, d, next), now)
      sw == IF rest = <<>> THEN [sweeps EXCEPT ![s] = IdleSweep]
                           ELSE [sweeps EXCEPT ![s] = [pc |-> "callback", queue |-> rest]]
  IN /\ persisted' = SaveScheduledPosts(m)
     /\ sweeps' = sw
     /\ scheduledPosts' = IF rest = <<>> THEN m ELSE MapWith(m, next, r)
     /\ detached' = Collect(IF rest = <<>> THEN d ELSE DetachedWith(m, d, next, r),
                            sw, timerTasks)
     /\ invoked' = IF rest = <<>> THEN invoked ELSE [invoked EXCEPT ![next] = @ + 1]

\* onExecutePost resolved: executeScheduledPost completes the record and
\* saves; the sweep goes on
SweepCallbackResolve(s) ==
  LET id == Head(sweeps[s].queue)
      r == ExecuteSuccess(Obj(id), now)
  IN /\ sweeps[s].pc = "callback"
     /\ CallbackMayResolve
     /\ SweepContinue(s, MapWith(scheduledPosts, id, r),
                      DetachedWith(scheduledPosts, detached, id, r))
     /\ lastCall' = NoCall
     /\ UNCHANGED <<now, isInitialized, timers, timerTasks, nextId, callbackMode,
                    earlyCancelled, restarts,
                 clientVars, pluginVars>>

\* onExecutePost rejected: executeScheduledPost saves and rethrows, the catch
\* of checkScheduledPosts runs handlePostExecutionError on the record object
\* it collected; the sweep goes on
SweepCallbackReject(s) ==
  LET id == Head(sweeps[s].queue)
      r == HandlePostExecutionError(Obj(id), now)
  IN /\ sweeps[s].pc = "callback"
     /\ CallbackMayReject
     /\ SweepContinue(s, MapWith(scheduledPosts, id, r),
                      DetachedWith(scheduledPosts, detached, id, r))
     /\ lastCall' = NoCall
     /\ UNCHANGED <<now, isInitialized, timers, timerTasks, nextId, callbackMode,
                    earlyCancelled, restarts,
                 clientVars, pluginVars>>

----------------------------------------------------------------------------
(* The per-record timer: the callback of setTimer *)

\* the test `post && post.status === 'scheduled'` of the timer callback
TimerMayExecute(id) ==
  id \in DOMAIN scheduledPosts /\ scheduledPosts[id].status = "scheduled"

\* A timeout fires, at its time or later.  It executes the record if it is
\* still scheduled; otherwise only the finally block runs.
TimerFire(h) ==
  LET id == timerTasks[h].id
  IN /\ timerTasks[h].pc = "armed"
     /\ timerTasks[h].at <= now
     /\ IF TimerMayExecute(id)
        THEN /\ timerTasks' = [timerTasks EXCEPT ![h].pc = "callback"]
             /\ scheduledPosts' = [scheduledPosts EXCEPT ![id] = ExecuteBegin(@, now)]
             /\ invoked' = [invoked EXCEPT ![id] = @ + 1]
             /\ UNCHANGED timers
        ELSE /\ timerTasks' = [timerTasks EXCEPT ![h] = FreeTimer]
             /\ timers' = Drop(timers, id)
             /\ UNCHANGED <<scheduledPosts, invoked>>
     /\ lastCall' = NoCall
     /\ UNCHANGED <<now, isInitialized, detached, sweeps, persisted, nextId,
                    callbackMode, earlyCancelled, restarts,
                 clientVars, pluginVars>>

\* the finally block of the timer callback: timers.delete(scheduleId)
TimerFinally(h, d) ==
  LET tt == [timerTasks EXCEPT ![h] = FreeTimer]
  IN /\ timerTasks' = tt
     /\ timers' = Drop(timers, timerTasks[h].id)
     /\ detached' = Collect(d, sweeps, tt)

\* onExecutePost resolved: the record is completed and saved
TimerCallbackResolve(h) ==
  LET id == timerTasks[h].id
      r == ExecuteSuccess(Obj(id), now)
  IN /\ timerTasks[h].pc = "callback"
     /\ CallbackMayResolve
     /\ scheduledPosts' = MapWith(scheduledPosts, id, r)
     /\ persisted' = SaveScheduledPosts(scheduledPosts')
     /\ TimerFinally(h, DetachedWith(scheduledPosts, detached, id, r))
     /\ lastCall' = NoCall
     /\ UNCHANGED <<now, isInitialized, sweeps, nextId, callbackMode, invoked,
                    earlyCancelled, restarts,
                 clientVars, pluginVars>>

\* onExecutePost rejected: executeScheduledPost saves and rethrows; the catch
\* of the timer callback looks the record up in the Map again and runs
\* handlePostExecutionError on it.  When the record is gone from the Map,
\* handlePostExecutionError throws on `post.attempts` and changes nothing.
TimerCallbackReject(h) ==
  LET id == timerTasks[h].id
  IN /\ timerTasks[h].pc = "callback"
     /\ CallbackMayReject
     /\ scheduledPosts' =
          IF id \in DOMAIN scheduledPosts
            THEN [scheduledPosts EXCEPT ![id] = HandlePostExecutionError(@, now)]
            ELSE scheduledPosts
     /\ persisted' = SaveScheduledPosts(scheduledPosts')
     /\ TimerFinally(h, detached)
     /\ lastCall' = NoCall
     /\ UNCHANGED <<now, isInitialized, sweeps, nextId, callbackMode, invoked,
                    earlyCancelled, restarts,
                 clientVars, pluginVars>>

----------------------------------------------------------------------------
(* Specification: any interleaving of API calls, timers, sweeps and time *)

\* the steps of the scheduler's own tasks and of the clock
Internal ==
  \/ Tick
  \/ SweepStart
  \/ \E s \in Sweeps : SweepCallbackResolve(s)
  \/ \E s \in Sweeps : SweepCallbackReject(s)
  \/ \E h \in Handles : TimerFire(h)
  \/ \E h \in Handles : TimerCallbackResolve(h)
  \/ \E h \in Handles : TimerCallbackReject(h)

\* Spec follows the records through every interleaving and does not look at
\* what the API calls return.
Next ==
  \/ Initialize
  \/ \E t \in {1, FarTime} : SchedulePostRejected(t) /\ lastCall' = NoCall
  \/ /\ nextId < MaxPosts
     /\ \E t \in {1, FarTime}, o \in OptionValues :
          SchedulePostAccepted("text1", <<"twitter">>, t, o)
     /\ lastCall' = NoCall
  \/ \E id \in Ids : CancelScheduledPost(id) /\ lastCall' = NoCall
  \/ \E id \in Ids, u \in CoreUpdates : UpdateScheduledPost(id, u) /\ lastCall' = NoCall
  \/ \E d \in CleanupDays : CleanupOldPosts(d) /\ lastCall' = NoCall
  \/ Internal

Spec == Init /\ [][Next]_vars

\* ApiSpec looks at single calls: every updates object, every time, and the
\* value each call returns.
ApiNext ==
  \/ Initialize
  \/ \E t \in ScheduleTimes :
       SchedulePostRejected(t) /\ lastCall' = ScheduleResult("text1", <<"twitter">>, t)
  \/ /\ nextId < ApiMaxPosts
     /\ \E t \in ScheduleTimes, o \in OptionValues :
          /\ SchedulePostAccepted("text1", <<"twitter">>, t, o)
          /\ lastCall' = ScheduleResult("text1", <<"twitter">>, t)
  \/ \E id \in Ids : CancelScheduledPost(id) /\ lastCall' = CancelResult(id)
  \/ \E id \in Ids, u \in Updates : UpdateScheduledPost(id, u) /\ lastCall' = UpdateResult(id)
  \/ \E d \in CleanupDays : CleanupOldPosts(d) /\ lastCall' = CleanupResult(d)
  \/ Internal

ApiSpec == Init /\ [][ApiNext]_vars

----------------------------------------------------------------------------
(* ScheduleSpec looks at the calls that create and remove records: two      *)
(* records, every id generateScheduleId can return, a scheduledTime that is *)
(* no date, the per-record timers, no sweep.                                *)

ScheduleInputs == {1, FarTime, InvalidTime}

ScheduleNext ==
  \/ Initialize
  \/ \E t \in ScheduleInputs :
       SchedulePostRejected(t) /\ lastCall' = ScheduleResult("text1", <<"twitter">>, t)
  \/ /\ nextId < MaxPosts
     /\ \E id \in GeneratedIds, t \in ScheduleInputs, o \in OptionValues :
          /\ SchedulePostAs(id, "text1", <<"twitter">>, t, o)
          /\ lastCall' = ScheduleResultAs(id, "text1", <<"twitter">>, t)
  \/ \E id \in Ids : CancelScheduledPost(id) /\ lastCall' = CancelResult(id)
  \/ \E d \in CleanupDays : CleanupOldPosts(d) /\ lastCall' = CleanupResult(d)
  \/ Tick
  \/ \E h \in Handles : TimerFire(h)
  \/ \E h \in Handles : TimerCallbackResolve(h)
  \/ \E h \in Handles : TimerCallbackReject(h)

ScheduleSpec == Init /\ [][ScheduleNext]_vars

----------------------------------------------------------------------------
(* LiveSpec: the sweep interval keeps running and the callback is           *)
(* deterministic.  The clock of the model is bounded, so LiveSpec lets time *)
(* pass only when no work is pending (a due record is picked up and a       *)
(* callback settles within the time unit), and schedules every record at    *)
(* time 1, so that the last retry falls on LastRetryTime.                   *)

RECURSIVE TotalDelay(_)
TotalDelay(n) == IF n <= 0 THEN 0 ELSE RetryDelay(n) + TotalDelay(n - 1)

LastRetryTime == 1 + TotalDelay(LiveMaxAttempts - 1)

LiveInit ==
  /\ now = 0
  /\ isInitialized = FALSE
  /\ scheduledPosts = EmptyMap
  /\ detached = EmptyMap
  /\ timers = EmptyMap
  /\ timerTasks = [h \in Handles |-> FreeTimer]
  /\ sweeps = [s \in Sweeps |-> IdleSweep]
  /\ persisted = NoFile
  /\ nextId = 0
  /\ callbackMode \in {"resolve", "reject"} \cup PluginModes
  /\ lastCall = NoCall
  /\ invoked = [i \in Ids |-> 0]
  /\ earlyCancelled = {}
  /\ restarts = 0
  /\ ClientInit

WorkPending ==
  \/ \E id \in DOMAIN scheduledPosts : Due(scheduledPosts[id], now)
  \/ \E s \in Sweeps : sweeps[s].pc = "callback"
  \/ \E h \in Handles : timerTasks[h].pc = "callback"

LiveTick ==
  /\ now < LastRetryTime
  /\ ~WorkPending
  /\ now' = now + 1
  /\ lastCall' = NoCall
  /\ UNCHANGED <<isInitialized, scheduledPosts, detached, timers, timerTasks,
                 sweeps, persisted, nextId, callbackMode, invoked, earlyCancelled, restarts,
                 clientVars, pluginVars>>

CallbackSettles ==
  \/ \E s \in Sweeps : SweepCallbackResolve(s)
  \/ \E s \in Sweeps : SweepCallbackReject(s)
  \/ \E h \in Handles : TimerCallbackResolve(h)
  \/ \E h \in Handles : TimerCallbackReject(h)

LiveNext ==
  \/ Initialize
  \/ SchedulePostRejected(1) /\ lastCall' = NoCall
  \/ /\ nextId < MaxPosts
     /\ \E o \in 1..LiveMaxAttempts : SchedulePostAccepted("text1", <<"twitter">>, 1, o)
     /\ lastCall' = NoCall
  \/ \E id \in Ids : CancelScheduledPost(id) /\ lastCall' = NoCall
  \/ \E id \in Ids : UpdateScheduledPost(id, [NoUpdates EXCEPT !.content = "text2"])
                     /\ lastCall' = NoCall
  \/ \E d \in CleanupDays : CleanupOldPosts(d) /\ lastCall' = NoCall
  \/ LiveTick
  \/ SweepStart
  \/ CallbackSettles
  \/ \E h \in Handles : TimerFire(h)

LiveSpec ==
  /\ LiveInit
  /\ [][LiveNext]_vars
  /\ WF_vars(LiveTick)
  /\ WF_vars(SweepStart)
  /\ WF_vars(CallbackSettles)

----------------------------------------------------------------------------
(* RestartSpec: LiveSpec with process restarts.  The process ends at any    *)
(* point; what is in memory, the timers and the tasks in progress are gone, *)
(* the storage file stays.  The application constructs the plugin again and *)
(* calls initialize.                                                        *)

Restart ==
  /\ restarts < MaxRestarts
  /\ isInitialized
  /\ restarts' = restarts + 1
  /\ isInitialized' = FALSE
  /\ scheduledPosts' = EmptyMap
  /\ detached' = EmptyMap
  /\ timers' = EmptyMap
  /\ timerTasks' = [h \in Handles |-> FreeTimer]
  /\ sweeps' = [s \in Sweeps |-> IdleSweep]
  /\ lastCall' = NoCall
  /\ clientInitialized' = FALSE
  /\ authInitialized' = FALSE
  /\ tokens' = EmptyMap
  /\ refreshTokens' = EmptyMap
  /\ authCalls' = [a \in AuthCalls |-> IdleAuth]
  /\ lastAuth' = NoAuth
  /\ destroying' = "idle"
  /\ hooks' = NoHooks
  /\ UNCHANGED <<now, persisted, nextId, callbackMode, invoked, earlyCancelled>>
  /\ UNCHANGED <<clock, retryAttempts, retryDelay, platformLimits, requests,
                 recorded, calls, lastCheck, postTask, runVars>>

\* the clock of the model is bounded: the application calls initialize
\* before time passes
RestartTick == isInitialized /\ LiveTick

RestartNext ==
  \/ Initialize
  \/ SchedulePostRejected(1) /\ lastCall' = NoCall
  \/ /\ nextId < MaxPosts
     /\ \E o \in 1..LiveMaxAttempts : SchedulePostAccepted("text1", <<"twitter">>, 1, o)
     /\ lastCall' = NoCall
  \/ \E id \in Ids : CancelScheduledPost(id) /\ lastCall' = NoCall
  \/ \E id \in Ids : UpdateScheduledPost(id, [NoUpdates EXCEPT !.content = "text2"])
                     /\ lastCall' = NoCall
  \/ \E d \in CleanupDays : CleanupOldPosts(d) /\ lastCall' = NoCall
  \/ RestartTick
  \/ SweepStart
  \/ CallbackSettles
  \/ \E h \in Handles : TimerFire(h)
  \/ Restart

RestartSpec ==
  /\ LiveInit
  /\ [][RestartNext]_vars
  /\ WF_vars(RestartTick)
  /\ WF_vars(SweepStart)
  /\ WF_vars(CallbackSettles)
  /\ WF_vars(Initialize)

----------------------------------------------------------------------------
(* RetrySpec: handlePostExecutionError on its own.  A sweep has started the *)
(* execution of one record, with any attempts and maxAttempts up to         *)
(* MaxRetryAttempts, and the callback rejects.                              *)

RetryInit ==
  /\ now \in Times
  /\ isInitialized = TRUE
  /\ \E a \in 1..MaxRetryAttempts, m \in 1..MaxRetryAttempts, t \in 0..now :
       scheduledPosts =
         Put(EmptyMap, 1,
             [NewPost(1, "text1", <<"twitter">>, t, m, 0)
                EXCEPT !.status = "executing", !.attempts = a, !.lastAttemptAt = now])
  /\ detached = EmptyMap
  /\ timers = EmptyMap
  /\ timerTasks = [h \in Handles |-> FreeTimer]
  /\ sweeps = [s \in Sweeps |-> IF s = 1 THEN [pc |-> "callback", queue |-> <<1>>]
                                          ELSE IdleSweep]
  /\ persisted = NoFile
  /\ nextId = 1
  /\ callbackMode = "reject"
  /\ lastCall = NoCall
  /\ invoked = [i \in Ids |-> IF i = 1 THEN 1 ELSE 0]
  /\ earlyCancelled = {}
  /\ restarts = 0
  /\ ClientInit

RetryNext == \E s \in Sweeps : SweepCallbackReject(s)

RetrySpec == RetryInit /\ [][RetryNext]_vars

----------------------------------------------------------------------------
(* Claims *)

StatusOf(id) == Obj(id).status

LegalChange(a, b) ==
  <<a, b>> \in {<<"scheduled", "executing">>, <<"executing", "completed">>,
               <<"executing", "failed">>, <<"executing", "scheduled">>,
               <<"scheduled", "cancelled">>}

\* C1: every status change of a record is scheduled->executing,
\* executing->completed, executing->failed, executing->scheduled or
\* scheduled->cancelled; a completed, failed or cancelled record never
\* changes status again.
C1_LegalTransitions ==
  [][\A id \in Ids :
       (HasObj(id) /\ HasObj(id)' /\ StatusOf(id)' # StatusOf(id))
         => LegalChange(StatusOf(id), StatusOf(id)')]_vars

C3_ExecuteOnlyScheduled ==
  [][\A id \in Ids :
       /\ invoked'[id] # invoked[id] => HasObj(id) /\ StatusOf(id) = "scheduled"
       /\ InFlight(id)' <= 1]_vars

\* C4: every record has 0 <= attempts <= maxAttempts, and the callback was
\* invoked at most maxAttempts times for it.
C4_AttemptsBounded ==
  \A id \in Ids :
    HasObj(id) => /\ 0 <= Obj(id).attempts
                  /\ Obj(id).attempts <= Obj(id).maxAttempts
                  /\ invoked[id] <= Obj(id).maxAttempts

\* C5: when the callback always throws, the callback is invoked at most
\* maxAttempts times for a record, and a failed record has attempts =
\* maxAttempts = number of invocations and carries the error message; after a
\* failure that is not the last one the record is scheduled again.
C5_FailsAfterMaxAttempts ==
  callbackMode = "reject" =>
    \A id \in Ids :
      HasObj(id) =>
        /\ invoked[id] <= Obj(id).maxAttempts
        /\ StatusOf(id) = "failed" =>
             /\ Obj(id).attempts = Obj(id).maxAttempts
             /\ invoked[id] = Obj(id).maxAttempts
             /\ Obj(id).error = "message"
        /\ (InFlight(id) = 0 /\ invoked[id] > 0 /\ invoked[id] < Obj(id).maxAttempts)
             => StatusOf(id) \in {"scheduled", "cancelled"}

ArmedFor(id) == {h \in Handles : timerTasks[h].pc = "armed" /\ timerTasks[h].id = id}

\* C6: once cancelScheduledPost succeeded on a record that was not yet due,
\* the record is cancelled, no timer is armed for it, and the callback is
\* not invoked for it any more.
C6_CancelledNeverExecuted ==
  [][\A id \in Ids :
       /\ (id \in earlyCancelled' /\ id \notin earlyCancelled)
            => StatusOf(id)' = "cancelled" /\ ArmedFor(id)' = {}
       /\ id \in earlyCancelled => invoked'[id] = invoked[id]]_vars

CallOn(op, id) == lastCall'.op = op /\ lastCall'.id = id

\* C7: cancelScheduledPost succeeds only on an existing record in status
\* scheduled; on an unknown id or a record in another status it fails and
\* leaves records, timers and the persisted state unchanged.
C7_CancelOnlyScheduled ==
  [][\A id \in Ids :
       CallOn("cancelScheduledPost", id) =>
         IF id \in DOMAIN scheduledPosts /\ scheduledPosts[id].status = "scheduled"
           THEN lastCall'.ok /\ scheduledPosts'[id].status = "cancelled"
           ELSE /\ ~lastCall'.ok
                /\ UNCHANGED <<scheduledPosts, detached, timers, timerTasks, persisted>>]_vars

C7_Witness ==
  /\ lastCall.op = "cancelScheduledPost" /\ ~lastCall.ok
  /\ lastCall.id \in DOMAIN scheduledPosts
  /\ scheduledPosts[lastCall.id].status = "executing"
  /\ timers # EmptyMap

\* C8: updateScheduledPost on a record that is not in status scheduled
\* changes none of content, platforms, scheduledTime and options and arms no
\* timer.
C8_UpdateOnlyScheduled ==
  [][\A id \in Ids :
       (/\ CallOn("updateScheduledPost", id)
        /\ id \in DOMAIN scheduledPosts
        /\ scheduledPosts[id].status # "scheduled")
         => /\ scheduledPosts'[id].content = scheduledPosts[id].content
            /\ scheduledPosts'[id].platforms = scheduledPosts[id].platforms
            /\ scheduledPosts'[id].scheduledTime = scheduledPosts[id].scheduledTime
            /\ scheduledPosts'[id].options = scheduledPosts[id].options
            /\ ArmedFor(id)' \subseteq ArmedFor(id)]_vars

\* C9: updateScheduledPost leaves id, status, attempts, maxAttempts,
\* createdAt, result and error of the record unchanged, whatever keys the
\* updates object has; besides content, platforms, scheduledTime and options
\* it writes updatedAt only.
C9_UpdateFrame ==
  [][\A id \in Ids :
       (CallOn("updateScheduledPost", id) /\ id \in DOMAIN scheduledPosts)
         => LET old == scheduledPosts[id]
                new == scheduledPosts'[id]
            IN /\ new.id = old.id
               /\ new.status = old.status
               /\ new.attempts = old.attempts
               /\ new.maxAttempts = old.maxAttempts
               /\ new.createdAt = old.createdAt
               /\ new.result = old.result
               /\ new.error = old.error
               /\ new.completedAt = old.completedAt
               /\ new.failedAt = old.failedAt
               /\ new.cancelledAt = old.cancelledAt
               /\ new.lastAttemptAt = old.lastAttemptAt]_vars

C9_Witness ==
  /\ lastCall.op = "updateScheduledPost" /\ lastCall.ok
  /\ scheduledPosts[lastCall.id].updatedAt = now
  /\ scheduledPosts[lastCall.id].attempts > 0
  /\ scheduledPosts[lastCall.id].status = "scheduled"
  /\ scheduledPosts[lastCall.id].content = "text2"

\* C10: schedulePost with a scheduledTime <= now fails; no record is
\* created, no timer is armed and the persisted state is unchanged.
C10_PastScheduleRejected ==
  [][(lastCall'.op = "schedulePost" /\ lastCall'.time <= now)
       => /\ ~lastCall'.ok
          /\ UNCHANGED <<scheduledPosts, detached, timers, timerTasks, persisted,
                         nextId>>]_vars

C10_Witness ==
  /\ isInitialized
  /\ lastCall.op = "schedulePost" /\ ~lastCall.ok
  /\ lastCall.time = now /\ now > 0
  /\ scheduledPosts = EmptyMap

\* C11: the callback is invoked for a record only at a time that is not
\* earlier than the record's scheduledTime at that moment.
C11_NotBeforeScheduledTime ==
  [][\A id \in Ids :
       invoked'[id] # invoked[id]
         => HasObj(id) /\ Lte(Obj(id).scheduledTime, now)]_vars

\* C12: when the callback is the plugin's own and posting fails on the
\* platforms, no record is marked completed: a record that was attempted and
\* is not in flight is scheduled for a retry, cancelled, or failed with the
\* error set.
C12_PlatformFailureRecorded ==
  callbackMode = "platformsFail" =>
    \A id \in Ids :
      HasObj(id) =>
        /\ StatusOf(id) # "completed"
        /\ StatusOf(id) = "failed" => Obj(id).error # NoValue

\* C13: in every state, that is wherever a task of the scheduler is suspended
\* or has returned, the records in the storage file are the records in
\* memory.
C13_WriteThrough ==
  persisted.posts = SaveScheduledPosts(scheduledPosts).posts

\* C14: every record that is in the storage file when the process is started
\* again reaches completed, failed or cancelled after the reload, whatever
\* its status in the file.
C14_RestartLosesNothing ==
  \A id \in Ids :
    []((restarts > 0 /\ ~isInitialized /\ id \in DOMAIN persisted.posts)
         => <>(HasObj(id) /\ StatusOf(id) \in Terminal))

\* C15: a successful schedulePost returns an id that no record used before
\* the call; after it the Map has that one record more, in status scheduled
\* with attempts 0 and with the scheduledTime, platforms and content of the
\* call, and every other record is as it was.
C15_ScheduleAddsOneRecord ==
  [][(lastCall'.op = "schedulePost" /\ lastCall'.ok) =>
       LET id == lastCall'.id
       IN /\ id \notin DOMAIN scheduledPosts
          /\ DOMAIN scheduledPosts' = (DOMAIN scheduledPosts) \cup {id}
          /\ \A k \in (DOMAIN scheduledPosts) \ {id} :
               scheduledPosts'[k] = scheduledPosts[k]
          /\ scheduledPosts'[id].id = id
          /\ scheduledPosts'[id].status = "scheduled"
          /\ scheduledPosts'[id].attempts = 0
          /\ scheduledPosts'[id].scheduledTime = lastCall'.time
          /\ scheduledPosts'[id].platforms = lastCall'.platforms
          /\ scheduledPosts'[id].content = lastCall'.content]_vars

\* C16: no record has both result and error; a record with a result is
\* completed and a record with an error is failed.
C16_ResultErrorExclusive ==
  \A id \in Ids :
    HasObj(id) =>
      /\ ~(Obj(id).result # NoValue /\ Obj(id).error # NoValue)
      /\ Obj(id).result # NoValue => StatusOf(id) = "completed"
      /\ Obj(id).error # NoValue => StatusOf(id) = "failed"

\* C17: once createdAt, completedAt, failedAt, cancelledAt or lastAttemptAt
\* of a record has a value, no later step gives it another value.
C17_TimestampsSetOnce ==
  [][\A id \in Ids :
       (HasObj(id) /\ HasObj(id)') =>
         /\ Obj(id).createdAt # NoTime => Obj(id)'.createdAt = Obj(id).createdAt
         /\ Obj(id).completedAt # NoTime => Obj(id)'.completedAt = Obj(id).completedAt
         /\ Obj(id).failedAt # NoTime => Obj(id)'.failedAt = Obj(id).failedAt
         /\ Obj(id).cancelledAt # NoTime => Obj(id)'.cancelledAt = Obj(id).cancelledAt
         /\ Obj(id).lastAttemptAt # NoTime
              => Obj(id)'.lastAttemptAt = Obj(id).lastAttemptAt]_vars

\* C18: when an execution fails with attempts < maxAttempts the record is
\* scheduled again for now + min(5, 2^(attempts - 1)) units of 60000 ms; that
\* delay is at most 5 units (300000 ms) and not smaller than the delay of any
\* lower attempts value; with attempts >= maxAttempts the record is failed
\* and its scheduledTime is the one it had.
C18_RetryBackoff ==
  [][\A id \in Ids :
       (/\ HasObj(id) /\ HasObj(id)'
        /\ StatusOf(id) = "executing" /\ StatusOf(id)' \in {"scheduled", "failed"})
         => LET a == Obj(id).attempts
                delay == Obj(id)'.scheduledTime - now
            IN IF a < Obj(id).maxAttempts
                 THEN /\ StatusOf(id)' = "scheduled"
                      /\ delay = (IF 2^(a - 1) < 5 THEN 2^(a - 1) ELSE 5)
                      /\ delay <= 5
                      /\ \A b \in 1..a : RetryDelay(b) <= delay
                 ELSE /\ StatusOf(id)' = "failed"
                      /\ Obj(id)'.scheduledTime = Obj(id).scheduledTime]_vars

C18_Witness ==
  \E id \in DOMAIN scheduledPosts :
    /\ scheduledPosts[id].status = "scheduled"
    /\ scheduledPosts[id].attempts = 4
    /\ scheduledPosts[id].scheduledTime = now + RetryCeiling

\* C19: the records in memory, written by saveScheduledPosts and read back
\* by loadScheduledPosts, are the same set of ids, each record with the id,
\* status, attempts and timestamps it had; loading without a file gives the
\* empty Map.
C19_RoundTrip ==
  LET loaded == LoadScheduledPosts(SaveScheduledPosts(scheduledPosts))
  IN /\ DOMAIN loaded = DOMAIN scheduledPosts
     /\ \A id \in DOMAIN scheduledPosts :
          /\ loaded[id].id = scheduledPosts[id].id
          /\ loaded[id].status = scheduledPosts[id].status
          /\ loaded[id].attempts = scheduledPosts[id].attempts
          /\ loaded[id].scheduledTime = scheduledPosts[id].scheduledTime
          /\ loaded[id].createdAt = scheduledPosts[id].createdAt
          /\ loaded[id].updatedAt = scheduledPosts[id].updatedAt
          /\ loaded[id].completedAt = scheduledPosts[id].completedAt
          /\ loaded[id].failedAt = scheduledPosts[id].failedAt
          /\ loaded[id].cancelledAt = scheduledPosts[id].cancelledAt
          /\ loaded[id].lastAttemptAt = scheduledPosts[id].lastAttemptAt
     /\ LoadScheduledPosts(NoFile) = EmptyMap

\* C20: a cleanupOldPosts call that directly follows a cleanupOldPosts call
\* with the same cutoff returns 0 and leaves the records and the storage file
\* as they are.
C20_CleanupIdempotent ==
  [][(/\ lastCall.op = "cleanupOldPosts"
      /\ lastCall'.op = "cleanupOldPosts"
      /\ lastCall'.time = lastCall.time)
       => /\ lastCall'.id = 0
          /\ UNCHANGED <<scheduledPosts, persisted>>]_vars

C20_Witness ==
  /\ lastCall.op = "cleanupOldPosts" /\ lastCall.id = 0
  /\ nextId = MaxPosts
  /\ scheduledPosts = EmptyMap
  /\ persisted = SaveScheduledPosts(EmptyMap)

\* the timestamp that belongs to a terminal status
TerminalTime(post) ==
  IF post.status = "completed" THEN post.completedAt
  ELSE IF post.status = "failed" THEN post.failedAt
  ELSE post.cancelledAt

\* C21: cleanupOldPosts removes exactly the completed, failed and cancelled
\* records whose completedAt, failedAt resp. cancelledAt is earlier than the
\* cutoff, returns their number, and leaves every other record in the Map
\* as it was.
C21_CleanupExact ==
  [][lastCall'.op = "cleanupOldPosts" =>
       LET cutoff == lastCall'.time
           old == {id \in DOMAIN scheduledPosts :
                     /\ scheduledPosts[id].status \in Terminal
                     /\ TerminalTime(scheduledPosts[id]) # NoTime
                     /\ TerminalTime(scheduledPosts[id]) < cutoff}
       IN /\ DOMAIN scheduledPosts' = (DOMAIN scheduledPosts) \ old
          /\ lastCall'.id = Cardinality(old)
          /\ \A id \in DOMAIN scheduledPosts' : scheduledPosts'[id] = scheduledPosts[id]]_vars

C21_Witness ==
  /\ lastCall.op = "cleanupOldPosts" /\ lastCall.id = 1
  /\ lastCall.time = now
  /\ \E id \in DOMAIN scheduledPosts :
       /\ scheduledPosts[id].status \in Terminal
       /\ TerminalTime(scheduledPosts[id]) = now

----------------------------------------------------------------------------
(* RateLimiter, called directly *)

schedulerVars == <<now, isInitialized, scheduledPosts, detached, timers, timerTasks,
                   sweeps, persisted, nextId, callbackMode, lastCall, invoked,
                   earlyCancelled, restarts>>

\* the scheduler part of a freshly constructed plugin
SchedulerInit ==
  /\ now = 0
  /\ isInitialized = FALSE
  /\ scheduledPosts = EmptyMap
  /\ detached = EmptyMap
  /\ timers = EmptyMap
  /\ timerTasks = [h \in Handles |-> FreeTimer]
  /\ sweeps = [s \in Sweeps |-> IdleSweep]
  /\ persisted = NoFile
  /\ nextId = 0
  /\ callbackMode = "any"
  /\ lastCall = NoCall
  /\ invoked = [i \in Ids |-> 0]
  /\ earlyCancelled = {}
  /\ restarts = 0

\* time passes for the rate limiter and the client
ClockTick ==
  /\ clock < ClientMaxTime
  /\ clock' = clock + 1
  /\ UNCHANGED <<clientInitialized, retryAttempts, retryDelay, platformLimits,
                 requests, recorded, calls, lastCheck>>
  /\ UNCHANGED <<schedulerVars, pluginVars>>

\* RateLimiter.recordRequest
RecordRequest(key) ==
  /\ Len(RequestsOf(recorded, key)) < MaxRequests
  /\ requests' = RecordRequestIn(requests, key, clock)
  /\ recorded' = RecordRequestIn(recorded, key, clock)
  /\ UNCHANGED <<clock, clientInitialized, retryAttempts, retryDelay,
                 platformLimits, calls, lastCheck>>
  /\ UNCHANGED <<schedulerVars, pluginVars>>

\* RateLimiter.checkLimit
CheckLimit(key) ==
  /\ lastCheck' = CheckRecord(key, clock)
  /\ requests' = CheckLimitRequests(platformLimits, requests, key, clock)
  /\ UNCHANGED <<clock, clientInitialized, retryAttempts, retryDelay,
                 platformLimits, recorded, calls>>
  /\ UNCHANGED <<schedulerVars, pluginVars>>

\* RateLimiter.setCustomLimit
SetCustomLimit(key, limit, window) ==
  /\ platformLimits' = Put(platformLimits, key, [limit |-> limit, window |-> window])
  /\ UNCHANGED <<clock, clientInitialized, retryAttempts, retryDelay,
                 requests, recorded, calls, lastCheck>>
  /\ UNCHANGED <<schedulerVars, pluginVars>>

\* RateLimiter.reset
Reset ==
  /\ requests' = EmptyMap
  /\ UNCHANGED <<clock, clientInitialized, retryAttempts, retryDelay,
                 platformLimits, recorded, calls, lastCheck>>
  /\ UNCHANGED <<schedulerVars, pluginVars>>

\* the call record after waitForReset ran up to its timeout or, when there
\* is nothing to wait for, to its end
WaitForReset(call, status) ==
  IF ~status.allowed /\ status.retryAfter > 0
  THEN [call EXCEPT !.pc = "sleeping", !.wakeAt = clock + status.retryAfter,
                    !.seen = status.seen, !.slept = TRUE]
  ELSE [call EXCEPT !.pc = "waited"]

\* RateLimiter.waitForReset called directly, up to its timeout
WaitForResetBegin(c, key) ==
  /\ calls[c].pc = "idle"
  /\ lastCheck' = CheckRecord(key, clock)
  /\ requests' = CheckLimitRequests(platformLimits, requests, key, clock)
  /\ calls' = [calls EXCEPT ![c] =
                 WaitForReset([IdleCall EXCEPT !.op = "waitForReset",
                                               !.platform = key[1]],
                              CheckRecord(key, clock))]
  /\ UNCHANGED <<clock, clientInitialized, retryAttempts, retryDelay,
                 platformLimits, recorded>>
  /\ UNCHANGED <<schedulerVars, pluginVars>>

\* the timeout of waitForReset fires and waitForReset returns
WaitForResetWake(c) ==
  /\ calls[c].pc = "sleeping"
  /\ clock >= calls[c].wakeAt
  /\ calls' = [calls EXCEPT ![c].pc = "waited"]
  /\ UNCHANGED <<clock, clientInitialized, retryAttempts, retryDelay,
                 platformLimits, requests, recorded, lastCheck>>
  /\ UNCHANGED <<schedulerVars, pluginVars>>

----------------------------------------------------------------------------
(* LimiterSpec: the rate limiter's API in any order.  The limits passed to  *)
(* setCustomLimit are numbers from 0 on, the windows last one unit or more. *)

LimiterKeys == {PostsKey("twitter"), PostsKey(UnsupportedPlatform)}
CustomKey == PostsKey("twitter")

LimiterInit ==
  /\ SchedulerInit
  /\ ClientInit

LimiterNext ==
  \/ ClockTick
  \/ RecordRequest(CustomKey)
  \/ \E key \in LimiterKeys : CheckLimit(key)
  \/ \E limit \in 0..MaxLimit, window \in 1..MaxWindow :
       SetCustomLimit(CustomKey, limit, window)
  \/ Reset

LimiterSpec == LimiterInit /\ [][LimiterNext]_vars

(* WindowSpec: the rate limiter with one custom limit that stays as it is,  *)
(* without reset.                                                           *)

WindowInit ==
  /\ SchedulerInit
  /\ clock = 0
  /\ clientInitialized = FALSE
  /\ retryAttempts = MaxRetriesOf(0)
  /\ retryDelay = RetryDelayOf(0)
  /\ \E limit \in 1..MaxLimit, window \in 1..MaxWindow :
       platformLimits = Put(DefaultLimits, CustomKey,
                            [limit |-> limit, window |-> window])
  /\ requests = EmptyMap
  /\ recorded = EmptyMap
  /\ calls = [c \in Calls |-> IdleCall]
  /\ lastCheck = NoCheck
  /\ postTask = NoPost
  /\ RunInit
  /\ AuthInit
  /\ destroying = "idle"
  /\ hooks = NoHooks

WindowNext ==
  \/ ClockTick
  \/ RecordRequest(CustomKey)
  \/ CheckLimit(CustomKey)
  \/ \E c \in Calls : WaitForResetBegin(c, CustomKey)
  \/ \E c \in Calls : WaitForResetWake(c)

WindowSpec == WindowInit /\ [][WindowNext]_vars

----------------------------------------------------------------------------

RecordedWithin(key, seen, t, window) ==
  {i \in 1..seen : /\ RequestsOf(recorded, key)[i] > t - window
                   /\ RequestsOf(recorded, key)[i] <= t}

\* C24: with limit L and window W, checkLimit at time t is allowed exactly
\* when fewer than L requests were recorded in (t - W, t]; with L requests
\* in the window it is not allowed and retryAfter is positive; once W has
\* passed since the recorded requests it is allowed again.
C24_WindowCount ==
  lastCheck.key = CustomKey =>
    LET limit == platformLimits[CustomKey].limit
        window == platformLimits[CustomKey].window
        within == RecordedWithin(CustomKey, lastCheck.seen, lastCheck.at, window)
    IN /\ lastCheck.allowed <=> Cardinality(within) < limit
       /\ Cardinality(within) >= limit =>
            ~lastCheck.allowed /\ lastCheck.retryAfter > 0
       /\ (\A i \in 1..lastCheck.seen :
             RequestsOf(recorded, CustomKey)[i] + window <= lastCheck.at)
            => lastCheck.allowed

C24_Witness ==
  /\ lastCheck.key = CustomKey
  /\ lastCheck.allowed
  /\ lastCheck.seen >= platformLimits[CustomKey].limit
  /\ lastCheck.seen >= 2
  /\ \A i \in 1..lastCheck.seen :
       RequestsOf(recorded, CustomKey)[i] + platformLimits[CustomKey].window
         <= lastCheck.at

----------------------------------------------------------------------------
(* CrosspostClient.postToPlatform.  A call record counts the platform calls *)
(* the call made (made), the requests it recorded (records), the backoff    *)
(* waits it started (waits) and the messages its platform calls failed with *)
(* (failures); result is the attempt whose result the call returned.        *)

\* CrosspostClient.initialize
ClientInitialize ==
  /\ ~clientInitialized
  /\ clientInitialized' = TRUE
  /\ UNCHANGED <<clock, retryAttempts, retryDelay, platformLimits, requests,
                 recorded, calls, lastCheck>>
  /\ UNCHANGED <<schedulerVars, pluginVars>>

\* postToPlatform up to its first suspension: it throws for a client that is
\* not initialized or a platform without client, else waitForReset runs
PostToPlatformRun(c, platform) ==
  /\ calls[c].pc = "idle"
  /\ LET call == [IdleCall EXCEPT !.op = "postToPlatform", !.platform = platform]
         status == CheckRecord(PostsKey(platform), clock)
     IN IF ~clientInitialized
        THEN /\ calls' = [calls EXCEPT ![c] =
                            [call EXCEPT !.pc = "rejected",
                                         !.error = NotInitializedError]]
             /\ UNCHANGED <<requests, lastCheck>>
        ELSE IF platform \notin Platforms
        THEN /\ calls' = [calls EXCEPT ![c] =
                            [call EXCEPT !.pc = "rejected",
                                         !.error = UnsupportedError(platform)]]
             /\ UNCHANGED <<requests, lastCheck>>
        ELSE /\ lastCheck' = status
             /\ requests' = CheckLimitRequests(platformLimits, requests,
                                               PostsKey(platform), clock)
             /\ calls' = [calls EXCEPT ![c] = WaitForReset(call, status)]
  /\ UNCHANGED <<clock, clientInitialized, retryAttempts, retryDelay,
                 platformLimits, recorded>>
  /\ UNCHANGED schedulerVars

\* postToPlatform called by the application
PostToPlatformBegin(c, platform) ==
  /\ PostToPlatformRun(c, platform)
  /\ UNCHANGED pluginVars

AttemptBeginRecordOnce(c) ==
  /\ calls[c].op = "postToPlatform"
  /\ \/ calls[c].pc = "waited"
     \/ calls[c].pc = "backoff" /\ clock >= calls[c].wakeAt
  /\ IF calls[c].attempt = 0
     THEN /\ requests' = RecordRequestIn(requests, PostsKey(calls[c].platform), clock)
          /\ recorded' = RecordRequestIn(recorded, PostsKey(calls[c].platform), clock)
     ELSE UNCHANGED <<requests, recorded>>
  /\ calls' = [calls EXCEPT ![c].pc = "calling",
                            ![c].attempt = @ + 1,
                            ![c].made = @ + 1,
                            ![c].records = IF calls[c].attempt = 0 THEN @ + 1 ELSE @]
  /\ UNCHANGED <<clock, clientInitialized, retryAttempts, retryDelay,
                 platformLimits, lastCheck>>
  /\ UNCHANGED <<schedulerVars, pluginVars>>

\* one round of the retry loop up to the platform call: after waitForReset
\* returned or the backoff timeout fired, the request is recorded and the
\* platform call starts
AttemptBegin(c) ==
  /\ calls[c].op = "postToPlatform"
  /\ \/ calls[c].pc = "waited"
     \/ calls[c].pc = "backoff" /\ clock >= calls[c].wakeAt
  /\ requests' = RecordRequestIn(requests, PostsKey(calls[c].platform), clock)
  /\ recorded' = RecordRequestIn(recorded, PostsKey(calls[c].platform), clock)
  /\ calls' = [calls EXCEPT ![c].pc = "calling",
                            ![c].attempt = @ + 1,
                            ![c].made = @ + 1,
                            ![c].records = @ + 1]
  /\ UNCHANGED <<clock, clientInitialized, retryAttempts, retryDelay,
                 platformLimits, lastCheck>>
  /\ UNCHANGED <<schedulerVars, pluginVars>>

\* the platform call returns and postToPlatform returns its result
PlatformCallSucceeds(c) ==
  /\ calls[c].pc = "calling"
  /\ calls' = [calls EXCEPT ![c].pc = "returned", ![c].result = calls[c].attempt]
  /\ UNCHANGED <<clock, clientInitialized, retryAttempts, retryDelay,
                 platformLimits, requests, recorded, lastCheck>>
  /\ UNCHANGED <<schedulerVars, pluginVars>>

CatchAlwaysRetry(call, message) ==
  LET error == PlatformError(call.platform, call.attempt, message)
  IN IF call.attempt < retryAttempts
     THEN [call EXCEPT !.pc = "backoff",
                       !.lastError = error,
                       !.wakeAt = clock + Backoff(retryDelay, call.attempt),
                       !.waits = Append(@, Backoff(retryDelay, call.attempt))]
     ELSE [call EXCEPT !.pc = "rejected",
                       !.lastError = error,
                       !.error = ExhaustedError(call.platform, retryAttempts, error)]

CatchKeepsFirstError(call, message) ==
  LET error == PlatformError(call.platform, call.attempt, message)
      lastError == IF call.lastError = NoError THEN error ELSE call.lastError
  IN IF IsNonRetryableError(message)
     THEN [call EXCEPT !.pc = "rejected", !.lastError = lastError, !.error = error]
     ELSE IF call.attempt < retryAttempts
     THEN [call EXCEPT !.pc = "backoff",
                       !.lastError = lastError,
                       !.wakeAt = clock + Backoff(retryDelay, call.attempt),
                       !.waits = Append(@, Backoff(retryDelay, call.attempt))]
     ELSE [call EXCEPT !.pc = "rejected",
                       !.lastError = lastError,
                       !.error = ExhaustedError(call.platform, retryAttempts, lastError)]

\* the catch block of the retry loop and, after the last round, the throw
\* that follows the loop
Catch(call, message) ==
  LET error == PlatformError(call.platform, call.attempt, message)
      lastError == error
  IN IF IsNonRetryableError(message)
     THEN [call EXCEPT !.pc = "rejected", !.lastError = lastError, !.error = error]
     ELSE IF call.attempt < retryAttempts
     THEN [call EXCEPT !.pc = "backoff",
                       !.lastError = lastError,
                       !.wakeAt = clock + Backoff(retryDelay, call.attempt),
                       !.waits = Append(@, Backoff(retryDelay, call.attempt))]
     ELSE [call EXCEPT !.pc = "rejected",
                       !.lastError = lastError,
                       !.error = ExhaustedError(call.platform, retryAttempts, lastError)]

\* the platform call throws an error with the given message
PlatformCallFails(c, message) ==
  /\ calls[c].pc = "calling"
  /\ calls' = [calls EXCEPT ![c] =
                 [Catch(calls[c], message) EXCEPT !.failures = Append(@, message)]]
  /\ UNCHANGED <<clock, clientInitialized, retryAttempts, retryDelay,
                 platformLimits, requests, recorded, lastCheck>>
  /\ UNCHANGED <<schedulerVars, pluginVars>>

(* ClientSpec: concurrent postToPlatform calls on a client whose options    *)
(* and whose limit for twitter posts were set before the first call.        *)

ClientPlatforms == {"twitter", UnsupportedPlatform}

\* the calls take the slots in order
NextCall(c) == \A d \in Calls : calls[d].pc = "idle" <=> d >= c

ClientSpecInit ==
  /\ SchedulerInit
  /\ clock = 0
  /\ clientInitialized = FALSE
  /\ \E option \in 0..MaxRetries : retryAttempts = MaxRetriesOf(option)
  /\ \E option \in 0..MaxRetryDelay : retryDelay = RetryDelayOf(option)
  /\ \E limit \in 1..MaxLimit :
       platformLimits = Put(DefaultLimits, CustomKey,
                            [limit |-> limit, window |-> MaxWindow])
  /\ requests = EmptyMap
  /\ recorded = EmptyMap
  /\ calls = [c \in Calls |-> IdleCall]
  /\ lastCheck = NoCheck
  /\ postTask = NoPost
  /\ RunInit
  /\ AuthInit
  /\ destroying = "idle"
  /\ hooks = NoHooks

ClientNext ==
  \/ ClockTick
  \/ ClientInitialize
  \/ \E c \in Calls, platform \in ClientPlatforms :
       NextCall(c) /\ PostToPlatformBegin(c, platform)
  \/ \E c \in Calls : WaitForResetWake(c)
  \/ \E c \in Calls : AttemptBegin(c)
  \/ \E c \in Calls : PlatformCallSucceeds(c)
  \/ \E c \in Calls, message \in PlatformMessages : PlatformCallFails(c, message)

ClientSpec == ClientSpecInit /\ [][ClientNext]_vars

----------------------------------------------------------------------------

\* the number of requests recorded for the key in (t - window, t]
RecordedInWindow(key, t) ==
  Cardinality({i \in DOMAIN RequestsOf(recorded, key) :
                 /\ RequestsOf(recorded, key)[i] > t - platformLimits[key].window
                 /\ RequestsOf(recorded, key)[i] <= t})

\* C22: whatever the interleaving of concurrent postToPlatform calls and
\* their retries, the requests recorded for a platform's posts within a
\* trailing window never number more than the platform's limit.
C22_LimitRespected ==
  \A t \in 0..ClientMaxTime :
    RecordedInWindow(CustomKey, t) <= platformLimits[CustomKey].limit

\* C25: waitForReset returns without waiting when checkLimit reports
\* allowed; otherwise it suspends the caller for retryAfter, and when it
\* returns, with no request recorded for the key while it waited, checkLimit
\* for the key reports allowed.
C25_WaitEndsAllowed ==
  [][\A c \in Calls :
       LET key == PostsKey(calls'[c].platform)
           status == CheckRecord(key, clock)
       IN /\ (calls[c].pc = "idle" /\ calls'[c].pc \in {"waited", "sleeping"}) =>
               IF status.allowed
               THEN calls'[c].pc = "waited" /\ ~calls'[c].slept
               ELSE /\ calls'[c].pc = "sleeping"
                    /\ calls'[c].wakeAt = clock + status.retryAfter
          /\ (/\ calls[c].pc = "sleeping" /\ calls'[c].pc = "waited"
              /\ Len(RequestsOf(recorded, key)) = calls[c].seen) =>
               CheckLimitResult(platformLimits, requests, key, clock).allowed]_vars

\* the calls that are postToPlatform calls
PostCalls == {c \in Calls : calls[c].op = "postToPlatform"}

RECURSIVE SumMade(_)
SumMade(S) ==
  IF S = {} THEN 0
  ELSE LET c == CHOOSE x \in S : TRUE IN calls[c].made + SumMade(S \ {c})

C28_ExhaustedError ==
  [][\A c \in PostCalls :
       /\ (/\ calls[c].pc = "calling" /\ calls'[c].pc # "calling"
           /\ Len(calls'[c].failures) = retryAttempts
           /\ \A i \in 1..retryAttempts :
                ~(\E msg \in nonRetryableMessages :
                    Includes(ToLowerCase(calls'[c].failures[i]), msg))) =>
            /\ calls'[c].pc = "rejected"
            /\ calls'[c].made = retryAttempts
            /\ calls'[c].error.text = "Failed to post"
            /\ calls'[c].error.platform = calls[c].platform
            /\ calls'[c].error.attempts = retryAttempts
            /\ calls'[c].error.message = calls'[c].failures[retryAttempts]
       /\ (calls[c].pc = "rejected" /\ calls[c].error.text = "Failed to post") =>
            /\ calls[c].made = retryAttempts
            /\ calls'[c] = calls[c]]_vars

C28_Witness ==
  \E c \in PostCalls :
    /\ calls[c].pc = "rejected"
    /\ retryAttempts = 3 /\ calls[c].made = 3
    /\ calls[c].failures = <<MsgTimeout, MsgTimeout, MsgBusy>>
    /\ calls[c].error = [text |-> "Failed to post", platform |-> "twitter",
                         attempts |-> 3, message |-> MsgBusy]

\* the waits of a call are retryDelay * 2^(k-1) for k = 1, 2, ...
ExpectedWaits(n) == [k \in 1..n |-> retryDelay * Pow2(k - 1)]

\* C29: after the k-th attempt failed with a retryable error and
\* k < maxRetries, the client waits retryDelay * 2^(k-1) before attempt k+1;
\* the waits are strictly increasing and no wait follows the last attempt.
C29_ExponentialBackoff ==
  [][\A c \in PostCalls :
       /\ calls[c].waits = ExpectedWaits(Len(calls[c].waits))
       /\ \A k \in 1..(Len(calls[c].waits) - 1) :
            calls[c].waits[k] < calls[c].waits[k + 1]
       /\ Len(calls[c].waits) <= retryAttempts - 1
       /\ (/\ calls[c].pc = "calling" /\ calls'[c].pc # "calling"
           /\ Len(calls'[c].failures) = Len(calls[c].failures) + 1
           /\ ~(\E msg \in nonRetryableMessages :
                  Includes(ToLowerCase(calls'[c].failures[Len(calls'[c].failures)]), msg))) =>
            IF calls[c].attempt < retryAttempts
            THEN /\ calls'[c].pc = "backoff"
                 /\ calls'[c].waits =
                      Append(calls[c].waits, retryDelay * Pow2(calls[c].attempt - 1))
                 /\ calls'[c].wakeAt = clock + retryDelay * Pow2(calls[c].attempt - 1)
            ELSE /\ calls'[c].pc = "rejected"
                 /\ calls'[c].waits = calls[c].waits
       /\ (calls[c].pc = "backoff" /\ calls'[c].pc # "backoff") =>
            /\ clock >= calls[c].wakeAt
            /\ calls'[c].attempt = calls[c].attempt + 1
            /\ calls'[c].pc = "calling"]_vars

C29_Witness ==
  \E c \in PostCalls :
    /\ retryAttempts = 3 /\ retryDelay = 1
    /\ calls[c].waits = <<1, 2>>
    /\ calls[c].made = 3
    /\ calls[c].pc = "rejected"
    /\ calls[c].error.text = "Failed to post"

----------------------------------------------------------------------------
(* CrosspostPlugin.post and its hooks; analytics is off.  What              *)
(* auth.getAccessToken returns for a platform is an input of the branch.    *)

\* new Error('Plugin not initialized. Call initialize() first.')
PluginNotInitializedError ==
  [text |-> "Plugin not initialized", platform |-> "", attempts |-> 0, message |-> <<>>]

\* new Error(`No access token available for ${platform}. ...`)
NoTokenError(platform) ==
  [text |-> "No access token available", platform |-> platform, attempts |-> 0,
   message |-> <<>>]

\* the optimizer found every platform of the list supported
OptimizeForPlatformsNever(platforms) == NoError

\* ContentOptimizer.optimizeForPlatforms: the platforms are optimized in the
\* order of the list, and the first one without limits makes it throw
OptimizeForPlatforms(platforms) ==
  IF \A i \in DOMAIN platforms : platforms[i] \in Platforms
  THEN NoError
  ELSE LET i == CHOOSE i \in DOMAIN platforms :
                  /\ platforms[i] \notin Platforms
                  /\ \A j \in 1..(i - 1) : platforms[j] \in Platforms
       IN UnsupportedError(platforms[i])

PostSettled == postTask.pc \in {"idle", "resolved", "rejected"}

\* what a hook that throws rejects the emit of its event with
HookError(event) ==
  [text |-> "Hook failed", platform |-> event, attempts |-> 0, message |-> <<>>]

\* emit up to its await: the callbacks registered for the event are all
\* called, and Promise.all waits for them
Emit(task, event) ==
  [task EXCEPT !.pc = event, !.events = Append(@, event),
               !.emitted = hooks[event], !.running = DOMAIN hooks[event]]

\* post returns its result
Resolved(task) ==
  [task EXCEPT !.pc = "resolved", !.emitted = <<>>, !.running = {}]

\* post throws err
Rejected(task, err) ==
  [task EXCEPT !.pc = "rejected", !.error = err, !.emitted = <<>>, !.running = {}]

\* the catch block that never emits
CaughtSilently(task, err) ==
  Rejected([task EXCEPT !.caught = err], err)

\* the catch block of post: on-error is emitted, and the error is thrown
\* again once its hooks have completed
Caught(task, err) ==
  LET t == [Emit(task, "on-error") EXCEPT !.caught = err]
  IN IF hooks["on-error"] = <<>> THEN Rejected(t, err) ELSE t

\* post from the return of emit('before-post') up to the Promise.allSettled:
\* the optimizer throws, or the branch of each platform starts and waits
\* for its access token
AfterBefore(task) ==
  IF OptimizeForPlatforms(task.platforms) # NoError
  THEN Caught(task, OptimizeForPlatforms(task.platforms))
  ELSE [task EXCEPT !.pc = "posting", !.emitted = <<>>, !.running = {},
                    !.state = [i \in DOMAIN task.platforms |-> "pending"],
                    !.slot = [i \in DOMAIN task.platforms |-> 0]]

\* post up to its first await that another step can follow: it throws when
\* the plugin is not initialized, else before-post is emitted; with no
\* before-post hook the emit returns at once
PluginPostBegin(platforms) ==
  /\ PostSettled
  /\ Cardinality({c \in Calls : calls[c].pc = "idle"}) >= Len(platforms)
  /\ postTask' =
       IF ~isInitialized
       THEN [NoPost EXCEPT !.pc = "rejected", !.platforms = platforms,
                           !.error = PluginNotInitializedError]
       ELSE LET t == [Emit([NoPost EXCEPT !.platforms = platforms], "before-post")
                        EXCEPT !.before = Len(hooks["before-post"])]
            IN IF hooks["before-post"] = <<>> THEN AfterBefore(t) ELSE t
  /\ UNCHANGED <<schedulerVars, clientVars, runVars, authVars, destroying, hooks>>

\* the callback h of the emit in progress settles: when it throws, Promise.all
\* rejects at once; when it was the last one running, emit returns
HookSettles(h) ==
  /\ postTask.pc \in HookEvents
  /\ h \in postTask.running
  /\ postTask' =
       IF postTask.emitted[h] = "throws"
       THEN LET t == [postTask EXCEPT !.threw = @ \cup {postTask.pc}]
            IN IF postTask.pc = "on-error"
               THEN Rejected(t, HookError("on-error"))
               ELSE Caught(t, HookError(postTask.pc))
       ELSE LET t == [postTask EXCEPT
                        !.running = @ \ {h},
                        !.done = IF postTask.pc = "before-post" THEN @ \cup {h} ELSE @]
            IN IF t.running # {} THEN t
               ELSE IF postTask.pc = "before-post" THEN AfterBefore(t)
               ELSE IF postTask.pc = "after-post" THEN Resolved(t)
               ELSE Rejected(t, t.caught)
  /\ UNCHANGED <<schedulerVars, clientVars, runVars, authVars, destroying, hooks>>

\* on(event, callback)
On(event, behaviour) ==
  /\ Len(hooks["before-post"]) + Len(hooks["after-post"]) + Len(hooks["on-error"])
       < MaxHooks
  /\ hooks' = [hooks EXCEPT ![event] = Append(@, behaviour)]
  /\ UNCHANGED <<schedulerVars, clientVars, postTask, runVars, authVars, destroying>>

\* the branch of platform i got no access token and throws
PostBranchNoToken(i) ==
  /\ postTask.pc = "posting"
  /\ i \in DOMAIN postTask.platforms
  /\ postTask.state[i] = "pending"
  /\ postTask' = [postTask EXCEPT !.state[i] = "noToken"]
  /\ UNCHANGED <<schedulerVars, clientVars, runVars, authVars, destroying, hooks>>

\* the branch of platform i got its access token and calls
\* client.postToPlatform
PostBranchCall(i, c) ==
  /\ postTask.pc = "posting"
  /\ i \in DOMAIN postTask.platforms
  /\ postTask.state[i] = "pending"
  /\ NextCall(c)
  /\ postTask' = [postTask EXCEPT !.state[i] = "called", !.slot[i] = c]
  /\ PostToPlatformRun(c, postTask.platforms[i])
  /\ UNCHANGED <<runVars, authVars, destroying, hooks>>

\* how the branch of platform i settled, "pending" while it has not
BranchOutcome(i) ==
  IF postTask.state[i] = "noToken" THEN "rejected"
  ELSE IF postTask.state[i] = "pending" THEN "pending"
  ELSE IF calls[postTask.slot[i]].pc = "returned" THEN "fulfilled"
  ELSE IF calls[postTask.slot[i]].pc = "rejected" THEN "rejected"
  ELSE "pending"

\* results.forEach with every status taken for the one asked for
SettledAll(platforms, outcomes, status) == platforms

\* results.forEach: the platforms, in the order of the list, whose branch
\* settled with the given status
RECURSIVE Settled(_, _, _)
Settled(platforms, outcomes, status) ==
  IF platforms = <<>> THEN <<>>
  ELSE (IF Head(outcomes) = status THEN <<Head(platforms)>> ELSE <<>>)
         \o Settled(Tail(platforms), Tail(outcomes), status)

\* every branch has settled: the two lists are built and after-post is
\* emitted; with no after-post hook, post returns its result
PostSettle ==
  /\ postTask.pc = "posting"
  /\ \A i \in DOMAIN postTask.platforms : BranchOutcome(i) # "pending"
  /\ LET outcomes == [i \in DOMAIN postTask.platforms |-> BranchOutcome(i)]
         successfulPosts == Settled(postTask.platforms, outcomes, "fulfilled")
         failedPosts == Settled(postTask.platforms, outcomes, "rejected")
         t == [Emit(postTask, "after-post") EXCEPT
                 !.success = (failedPosts = <<>>),
                 !.successful = successfulPosts,
                 !.failed = failedPosts,
                 !.summary = [total |-> Len(postTask.platforms),
                              successful |-> Len(successfulPosts),
                              failed |-> Len(failedPosts)]]
     IN postTask' = IF hooks["after-post"] = <<>> THEN Resolved(t) ELSE t
  /\ UNCHANGED <<schedulerVars, clientVars, runVars, authVars, destroying, hooks>>

(* PostSpec: post calls, one after the other, on a plugin with the default  *)
(* limits and a client that was configured with maxRetries 1.               *)

PostLists ==
  {<<"twitter">>, <<"twitter", "mastodon">>, <<"twitter", "twitter">>,
   <<UnsupportedPlatform>>,
   <<"twitter", UnsupportedPlatform>>, <<UnsupportedPlatform, "mastodon">>}

PostInit ==
  /\ SchedulerInit
  /\ clock = 0
  /\ clientInitialized = FALSE
  /\ retryAttempts = MaxRetriesOf(1)
  /\ retryDelay = RetryDelayOf(0)
  /\ platformLimits = DefaultLimits
  /\ requests = EmptyMap
  /\ recorded = EmptyMap
  /\ calls = [c \in Calls |-> IdleCall]
  /\ lastCheck = NoCheck
  /\ postTask = NoPost
  /\ RunInit
  /\ AuthInit
  /\ destroying = "idle"
  /\ hooks = NoHooks

PostNext ==
  \/ Initialize
  \/ \E platforms \in PostLists : PluginPostBegin(platforms)
  \/ \E i \in 1..2 : PostBranchNoToken(i)
  \/ \E i \in 1..2, c \in Calls : PostBranchCall(i, c)
  \/ \E c \in Calls : AttemptBegin(c)
  \/ \E c \in Calls : PlatformCallSucceeds(c)
  \/ \E c \in Calls, message \in PlatformMessages : PlatformCallFails(c, message)
  \/ PostSettle

PostSpec == PostInit /\ [][PostNext]_vars

----------------------------------------------------------------------------

ReferenceResult ==
  CheckLimitResult(platformLimits,
                   Put(EmptyMap, lastCheck.key,
                       SubSeq(RequestsOf(recorded, lastCheck.key), 1, lastCheck.seen)),
                   lastCheck.key, lastCheck.at)

\* C38: pruning in checkLimit changes no answer: every checkLimit result
\* (allowed, remaining, resetTime, retryAfter) equals the result computed
\* from the full history of recorded requests.
C38_PruningInvisible ==
  lastCheck.key = CustomKey =>
    /\ lastCheck.allowed = ReferenceResult.allowed
    /\ lastCheck.remaining = ReferenceResult.remaining
    /\ lastCheck.resetTime = ReferenceResult.resetTime
    /\ lastCheck.retryAfter = ReferenceResult.retryAfter

C38_Witness ==
  /\ lastCheck.key = CustomKey
  /\ lastCheck.at = clock
  /\ ~lastCheck.allowed
  /\ lastCheck.seen = Len(RequestsOf(recorded, CustomKey))
  /\ Len(RequestsOf(requests, CustomKey)) >= 1
  /\ Len(RequestsOf(requests, CustomKey)) < lastCheck.seen

----------------------------------------------------------------------------
(* The sweep interval: startScheduler and stopScheduler.  The              *)
(* specifications above let isInitialized stand for the running interval;  *)
(* here the interval handles of the runtime are state of their own.        *)

\* checkScheduledPosts up to its first await: it collects the due records
\* and runs executeScheduledPost on the first one up to the await of the
\* callback, in sweep slot NextSlot
CheckScheduledPostsBegin ==
  LET q == PostsToExecute
      first == Head(q)
  IN /\ IdleSlots # {}
     /\ q # <<>>
     /\ sweeps' = [sweeps EXCEPT ![NextSlot] = [pc |-> "callback", queue |-> q]]
     /\ scheduledPosts' = [scheduledPosts EXCEPT ![first] = ExecuteBegin(@, now)]
     /\ invoked' = [invoked EXCEPT ![first] = @ + 1]

\* the handle setInterval returns
NewInterval ==
  CHOOSE h \in Intervals \ intervals : \A g \in Intervals \ intervals : h <= g

\* startScheduler up to its first await: it returns when intervalId is set,
\* otherwise it calls checkScheduledPosts and awaits it
StartSchedulerBegin(t) ==
  /\ starts[t].pc = "idle"
  /\ stopped' = FALSE
  /\ IF intervalId # Null
     THEN /\ starts' = [starts EXCEPT ![t].pc = "returned"]
          /\ UNCHANGED <<sweeps, scheduledPosts, invoked>>
     ELSE IF PostsToExecute = <<>>
     THEN /\ starts' = [starts EXCEPT ![t].pc = "checked"]
          /\ UNCHANGED <<sweeps, scheduledPosts, invoked>>
     ELSE /\ starts' = [starts EXCEPT ![t] = [pc |-> "checking", slot |-> NextSlot]]
          /\ CheckScheduledPostsBegin
  /\ lastCall' = NoCall
  /\ UNCHANGED <<now, isInitialized, detached, timers, timerTasks, persisted,
                 nextId, callbackMode, earlyCancelled, restarts,
                 clientVars, postTask, intervalId, intervals, authVars, destroying, hooks>>

\* the check startScheduler awaits is over (the model lets it go on when
\* the slot of its check is idle)
StartChecked(t) ==
  \/ starts[t].pc = "checked"
  \/ starts[t].pc = "checking" /\ sweeps[starts[t].slot].pc = "idle"

\* startScheduler after the await: setInterval, the handle is stored
StartSchedulerSet(t) ==
  /\ StartChecked(t)
  /\ intervalId' = NewInterval
  /\ intervals' = intervals \cup {NewInterval}
  /\ starts' = [starts EXCEPT ![t] = [pc |-> "returned", slot |-> 0]]
  /\ lastCall' = NoCall
  /\ UNCHANGED <<now, isInitialized, scheduledPosts, detached, timers, timerTasks,
                 sweeps, persisted, nextId, callbackMode, invoked, earlyCancelled,
                 restarts, clientVars, postTask, stopped, authVars, destroying, hooks>>

\* an active interval ticks: its callback runs checkScheduledPosts
IntervalTick(i) ==
  /\ i \in intervals
  /\ CheckScheduledPostsBegin
  /\ lastCall' = NoCall
  /\ UNCHANGED <<now, isInitialized, detached, timers, timerTasks, persisted,
                 nextId, callbackMode, earlyCancelled, restarts,
                 clientVars, pluginVars>>

\* stopScheduler: clearInterval of the stored handle, clearTimeout of every
\* timer of the Map, timers.clear(); nothing is awaited
StopScheduler ==
  /\ intervals' = IF intervalId # Null THEN intervals \ {intervalId} ELSE intervals
  /\ intervalId' = Null
  /\ timerTasks' = [h \in Handles |->
                      IF \E id \in DOMAIN timers : timers[id] = h
                        THEN ClearTimeout(timerTasks, h)[h]
                        ELSE timerTasks[h]]
  /\ timers' = EmptyMap
  /\ stopped' = TRUE
  /\ lastCall' = NoCall
  /\ UNCHANGED <<now, isInitialized, scheduledPosts, detached, sweeps, persisted,
                 nextId, callbackMode, invoked, earlyCancelled, restarts,
                 clientVars, postTask, starts, authVars, destroying, hooks>>

(* RunSpec: an initialized plugin whose scheduler runs, a callback that    *)
(* resolves; records are scheduled for time 1, the scheduler is stopped    *)
(* and started by hand.                                                    *)

RunSpecInit ==
  /\ now = 0
  /\ isInitialized = TRUE
  /\ scheduledPosts = EmptyMap
  /\ detached = EmptyMap
  /\ timers = EmptyMap
  /\ timerTasks = [h \in Handles |-> FreeTimer]
  /\ sweeps = [s \in Sweeps |-> IdleSweep]
  /\ persisted = NoFile
  /\ nextId = 0
  /\ callbackMode = "resolve"
  /\ lastCall = NoCall
  /\ invoked = [i \in Ids |-> 0]
  /\ earlyCancelled = {}
  /\ restarts = 0
  /\ clock = 0
  /\ clientInitialized = TRUE
  /\ retryAttempts = MaxRetriesOf(0)
  /\ retryDelay = RetryDelayOf(0)
  /\ platformLimits = DefaultLimits
  /\ requests = EmptyMap
  /\ recorded = EmptyMap
  /\ calls = [c \in Calls |-> IdleCall]
  /\ lastCheck = NoCheck
  /\ postTask = NoPost
  /\ intervalId = 1
  /\ intervals = {1}
  /\ starts = [t \in StartCalls |-> IdleStart]
  /\ stopped = FALSE
  /\ authInitialized = TRUE
  /\ tokens = EmptyMap
  /\ refreshTokens = EmptyMap
  /\ authCalls = [a \in AuthCalls |-> IdleAuth]
  /\ lastAuth = NoAuth
  /\ destroying = "idle"
  /\ hooks = NoHooks

RunNext ==
  \/ /\ nextId < MaxPosts
     /\ SchedulePostAccepted("text1", <<"twitter">>, 1, 0)
     /\ lastCall' = NoCall
  \/ Tick
  \/ \E t \in StartCalls : StartSchedulerBegin(t)
  \/ \E t \in StartCalls : StartSchedulerSet(t)
  \/ \E i \in Intervals : IntervalTick(i)
  \/ StopScheduler
  \/ \E s \in Sweeps : SweepCallbackResolve(s)
  \/ \E h \in Handles : TimerFire(h)
  \/ \E h \in Handles : TimerCallbackResolve(h)

RunSpec == RunSpecInit /\ [][RunNext]_vars

\* C37: at most one sweep interval is active at any time, whatever the
\* interleaving of startScheduler calls, and none is active once
\* stopScheduler has returned and startScheduler was not called again.
C37_OneInterval ==
  /\ Cardinality(intervals) <= 1
  /\ stopped => intervals = {}

\* C36: while stopScheduler has returned and the scheduler was not started
\* again, no execution of a scheduled post is started, by a timer or by a
\* sweep.
C36_NoExecutionAfterStop ==
  [][stopped /\ stopped' => invoked' = invoked]_vars

----------------------------------------------------------------------------
(* AuthManager: authenticate, getAuthStatus, revokeAuth, destroy           *)

AuthPlatforms == {"twitter", "linkedin", "facebook", "instagram", "mastodon"}

\* the credentials of a call: without the ids of the application, with the
\* ids only, with the ids and an authorization code
AuthCredentials == {"none", "ids", "code"}

\* the platform whose authenticate function exchanges the code and stores
\* the token: authenticateInstagram calls authenticateFacebook
ExchangePlatform(platform) == IF platform = "instagram" THEN "facebook" ELSE platform

\* tokenResponse.access_token / refresh_token of the exchange for a platform
AccessToken(platform) == <<"access", platform>>
RefreshToken(platform) == <<"refresh", platform>>

\* the authenticate functions that store tokenResponse.refresh_token
StoresRefreshToken(platform) == platform \in {"twitter", "linkedin"}

IsAuthenticatedByRefresh(tok, ref, platform) == platform \in DOMAIN ref

\* isAuthenticated(platform): this.tokens.has(platform)
IsAuthenticated(tok, ref, platform) == platform \in DOMAIN tok

\* the entry of getAuthStatus for one platform
GetAuthStatus(tok, ref, platform) ==
  [authenticated |-> IsAuthenticated(tok, ref, platform),
   hasToken |-> platform \in DOMAIN tok,
   hasRefreshToken |-> platform \in DOMAIN ref]

AuthFree(a) == authCalls[a].pc = "idle"

\* an authenticate call that threw
AuthThrown(platform, cred) ==
  [NoAuth EXCEPT !.op = "authenticate", !.platform = platform,
                 !.code = (cred = "code"), !.ok = FALSE]

\* authenticate(platform, credentials) up to its first await, or to its end
\* when nothing is awaited: it throws when the manager is not initialized,
\* the platform unknown or the ids missing; without a code it returns the
\* authorization URL; with a code it awaits exchangeCodeForToken
AuthenticateBegin(a, platform, cred) ==
  LET throws == ~authInitialized \/ platform \notin AuthPlatforms \/ cred = "none"
  IN /\ AuthFree(a)
     /\ authCalls' =
          IF throws \/ cred = "ids"
            THEN authCalls
            ELSE [authCalls EXCEPT ![a] = [IdleAuth EXCEPT !.pc = "exchanging",
                                                          !.platform = platform]]
     /\ lastAuth' =
          IF throws THEN AuthThrown(platform, cred)
          ELSE IF cred = "ids"
          THEN [NoAuth EXCEPT !.op = "authenticate", !.platform = platform,
                              !.authUrl = TRUE, !.state = TRUE]
          ELSE NoAuth
     /\ UNCHANGED <<authInitialized, tokens, refreshTokens>>
     /\ UNCHANGED <<schedulerVars, clientVars, postTask, runVars, destroying, hooks>>

\* exchangeCodeForToken resolved: the token is stored, saveTokens is awaited
ExchangeResolves(a) ==
  LET platform == ExchangePlatform(authCalls[a].platform)
  IN /\ authCalls[a].pc = "exchanging"
     /\ tokens' = Put(tokens, platform, AccessToken(platform))
     /\ refreshTokens' = IF StoresRefreshToken(platform)
                           THEN Put(refreshTokens, platform, RefreshToken(platform))
                           ELSE refreshTokens
     /\ authCalls' = [authCalls EXCEPT ![a].pc = "saving",
                                       ![a].changed = {platform} \ DOMAIN tokens]
     /\ lastAuth' = NoAuth
     /\ UNCHANGED authInitialized
     /\ UNCHANGED <<schedulerVars, clientVars, postTask, runVars, destroying, hooks>>

\* exchangeCodeForToken or saveTokens threw: authenticate rethrows
AuthenticateRejects(a) ==
  /\ authCalls[a].pc \in {"exchanging", "saving"}
  /\ authCalls' = [authCalls EXCEPT ![a] = IdleAuth]
  /\ lastAuth' = AuthThrown(authCalls[a].platform, "code")
  /\ UNCHANGED <<authInitialized, tokens, refreshTokens>>
  /\ UNCHANGED <<schedulerVars, clientVars, postTask, runVars, destroying, hooks>>

\* saveTokens resolved: the authenticate function returns success;
\* authenticateInstagram then stores the access token of the result under
\* 'instagram' as well
AuthenticateReturns(a) ==
  LET platform == authCalls[a].platform
  IN /\ authCalls[a].pc = "saving"
     /\ tokens' = IF platform = "instagram"
                    THEN Put(tokens, "instagram", AccessToken(ExchangePlatform(platform)))
                    ELSE tokens
     /\ authCalls' = [authCalls EXCEPT ![a] = IdleAuth]
     /\ lastAuth' = [NoAuth EXCEPT !.op = "authenticate", !.platform = platform,
                                   !.code = TRUE, !.success = TRUE,
                                   !.changed = authCalls[a].changed
                                               \cup (DOMAIN tokens' \ DOMAIN tokens),
                                   !.dropped = authCalls[a].dropped]
     /\ UNCHANGED <<authInitialized, refreshTokens>>
     /\ UNCHANGED <<schedulerVars, clientVars, postTask, runVars, destroying, hooks>>

\* history: the calls in progress whose stored token is removed
Dropping(platforms) ==
  [a \in AuthCalls |->
     IF authCalls[a].pc = "saving"
        /\ ExchangePlatform(authCalls[a].platform) \in platforms
       THEN [authCalls[a] EXCEPT !.dropped = TRUE]
       ELSE authCalls[a]]

\* revokeAuth(platform): both Maps drop the platform, then saveTokens
RevokeAuth(platform) ==
  /\ tokens' = Drop(tokens, platform)
  /\ refreshTokens' = Drop(refreshTokens, platform)
  /\ lastAuth' = [NoAuth EXCEPT !.op = "revokeAuth", !.platform = platform]
  /\ authCalls' = Dropping({platform})
  /\ UNCHANGED authInitialized
  /\ UNCHANGED <<schedulerVars, clientVars, postTask, runVars, destroying, hooks>>

----------------------------------------------------------------------------
(* CrosspostPlugin.destroy *)

\* destroy up to its first await: client.destroy()
DestroyBegin ==
  /\ destroying = "idle"
  /\ destroying' = "auth"
  /\ clientInitialized' = FALSE
  /\ lastCall' = NoCall
  /\ lastAuth' = NoAuth
  /\ UNCHANGED <<now, isInitialized, scheduledPosts, detached, timers, timerTasks,
                 sweeps, persisted, nextId, callbackMode, invoked, earlyCancelled,
                 restarts>>
  /\ UNCHANGED <<clock, retryAttempts, retryDelay, platformLimits, requests,
                 recorded, calls, lastCheck, postTask, runVars,
                 authInitialized, tokens, refreshTokens, authCalls, hooks>>

\* auth.destroy(): both Maps are cleared
DestroyAuth ==
  /\ destroying = "auth"
  /\ destroying' = "scheduler"
  /\ tokens' = EmptyMap
  /\ refreshTokens' = EmptyMap
  /\ authInitialized' = FALSE
  /\ lastAuth' = [NoAuth EXCEPT !.op = "destroy"]
  /\ authCalls' = Dropping(AuthPlatforms)
  /\ lastCall' = NoCall
  /\ UNCHANGED <<now, isInitialized, scheduledPosts, detached, timers, timerTasks,
                 sweeps, persisted, nextId, callbackMode, invoked, earlyCancelled,
                 restarts>>
  /\ UNCHANGED <<clientVars, postTask, runVars, hooks>>

\* scheduler.destroy(): stopScheduler, then saveScheduledPosts is awaited
DestroyScheduler ==
  /\ destroying = "scheduler"
  /\ destroying' = "saving"
  /\ intervals' = IF intervalId # Null THEN intervals \ {intervalId} ELSE intervals
  /\ intervalId' = Null
  /\ timerTasks' = [h \in Handles |->
                      IF \E id \in DOMAIN timers : timers[id] = h
                        THEN ClearTimeout(timerTasks, h)[h]
                        ELSE timerTasks[h]]
  /\ timers' = EmptyMap
  /\ stopped' = TRUE
  /\ lastCall' = NoCall
  /\ lastAuth' = NoAuth
  /\ UNCHANGED <<now, isInitialized, scheduledPosts, detached, sweeps, persisted,
                 nextId, callbackMode, invoked, earlyCancelled, restarts,
                 clientVars, postTask, starts,
                 authInitialized, tokens, refreshTokens, authCalls, hooks>>

\* the file is written; the hooks are cleared and isInitialized is reset
DestroyEnd ==
  /\ destroying = "saving"
  /\ destroying' = "idle"
  /\ persisted' = SaveScheduledPosts(scheduledPosts)
  /\ hooks' = NoHooks
  /\ isInitialized' = FALSE
  /\ lastCall' = [NoCall EXCEPT !.op = "destroy"]
  /\ lastAuth' = NoAuth
  /\ UNCHANGED <<now, scheduledPosts, detached, timers, timerTasks, sweeps,
                 nextId, callbackMode, invoked, earlyCancelled, restarts>>
  /\ UNCHANGED <<clientVars, postTask, runVars,
                 authInitialized, tokens, refreshTokens, authCalls>>

(* AuthSpec: a plugin that is initialized and destroyed, and authenticate  *)
(* and revokeAuth calls in any interleaving.                               *)

AuthInputs == {"twitter", "facebook", "instagram", UnsupportedPlatform}

AuthNext ==
  \/ Initialize
  \/ \E a \in AuthCalls, platform \in AuthInputs, cred \in AuthCredentials :
       AuthenticateBegin(a, platform, cred) /\ lastCall' = NoCall
  \/ \E a \in AuthCalls : ExchangeResolves(a) /\ lastCall' = NoCall
  \/ \E a \in AuthCalls : AuthenticateRejects(a) /\ lastCall' = NoCall
  \/ \E a \in AuthCalls : AuthenticateReturns(a) /\ lastCall' = NoCall
  \/ \E platform \in AuthInputs : RevokeAuth(platform) /\ lastCall' = NoCall
  \/ DestroyBegin
  \/ DestroyAuth
  \/ DestroyScheduler
  \/ DestroyEnd

AuthSpec == Init /\ [][AuthNext]_vars

Authenticated(platform) == GetAuthStatus(tokens, refreshTokens, platform).authenticated

C34_AuthFrame ==
  [][(lastAuth'.op = "authenticate" /\ lastAuth'.success) =>
       lastAuth'.changed \subseteq {lastAuth'.platform}]_vars

----------------------------------------------------------------------------
(* LifeSpec: the plugin is initialized and destroyed; post and             *)
(* schedulePost are called in every phase.                                 *)

LifeNext ==
  \/ Initialize
  \/ /\ SchedulePostRejected(1)
     /\ lastCall' = ScheduleResult("text1", <<"twitter">>, 1)
  \/ /\ nextId < ApiMaxPosts
     /\ SchedulePostAccepted("text1", <<"twitter">>, 1, 0)
     /\ lastCall' = ScheduleResult("text1", <<"twitter">>, 1)
  \/ Tick
  \/ PluginPostBegin(<<"twitter">>)
  \/ PostBranchNoToken(1)
  \/ \E c \in Calls : PostBranchCall(1, c)
  \/ \E c \in Calls : AttemptBegin(c)
  \/ \E c \in Calls : PlatformCallSucceeds(c)
  \/ \E c \in Calls : PlatformCallFails(c, MsgUnauthorized)
  \/ PostSettle
  \/ DestroyBegin
  \/ DestroyAuth
  \/ DestroyScheduler
  \/ DestroyEnd

LifeSpec == Init /\ [][LifeNext]_vars

\* C31: isInitialized is false after construction, true when initialize
\* has returned and false when destroy has returned; while it is false, a
\* post call rejects with 'Plugin not initialized' and starts no platform
\* call, and a schedulePost call rejects with the same error, creates no
\* record, arms no timer and writes nothing.
C31_NotInitialized ==
  /\ ~isInitialized
  /\ [][/\ lastCall'.op = "initialize" => isInitialized'
        /\ lastCall'.op = "destroy" => ~isInitialized'
        /\ (~isInitialized /\ PostSettled /\ postTask' # postTask)
             => /\ postTask'.pc = "rejected"
                /\ postTask'.error = PluginNotInitializedError
                /\ calls' = calls /\ recorded' = recorded /\ requests' = requests
        /\ (~isInitialized /\ lastCall'.op = "schedulePost")
             => /\ ~lastCall'.ok
                /\ lastCall'.error = "Plugin not initialized"
                /\ scheduledPosts' = scheduledPosts
                /\ timers' = timers /\ timerTasks' = timerTasks
                /\ persisted' = persisted]_vars

\* the plugin was initialized, has scheduled a record and was destroyed;
\* schedulePost for a time still in the future is rejected
C31_Witness ==
  /\ ~isInitialized
  /\ scheduledPosts # EmptyMap
  /\ lastCall.op = "schedulePost" /\ ~lastCall.ok /\ lastCall.time > now
  /\ postTask.pc = "rejected" /\ postTask.error = PluginNotInitializedError

----------------------------------------------------------------------------
(* The result of post.                                                      *)

\* how many entries of the list are the platform
Count(list, platform) ==
  Cardinality({i \in DOMAIN list : list[i] = platform})

\* the platforms of the post call
Requested == {postTask.platforms[i] : i \in DOMAIN postTask.platforms}

\* the entries of the list of the platform whose branch settled with status
BranchesOf(platform, status) ==
  {i \in DOMAIN postTask.platforms :
     postTask.platforms[i] = platform /\ BranchOutcome(i) = status}

\* the summary adds up and success tells whether failed is empty
SummaryAddsUp ==
  /\ postTask.summary.total = Len(postTask.platforms)
  /\ postTask.summary.successful = Len(postTask.successful)
  /\ postTask.summary.failed = Len(postTask.failed)
  /\ postTask.summary.total = postTask.summary.successful + postTask.summary.failed
  /\ postTask.success <=> postTask.failed = <<>>

\* the branch of every entry ran to its own end: it found no token, or it
\* made its postToPlatform call for its platform
EveryBranchRan ==
  \A i \in DOMAIN postTask.platforms :
    \/ postTask.state[i] = "noToken"
    \/ /\ postTask.state[i] = "called"
       /\ calls[postTask.slot[i]].op = "postToPlatform"
       /\ calls[postTask.slot[i]].platform = postTask.platforms[i]
       /\ calls[postTask.slot[i]].pc \in {"returned", "rejected"}

\* C32 as stated: for every post call that returns a result, each requested
\* platform appears exactly once in exactly one of successful and failed,
\* summary.total = number of requested platforms = summary.successful +
\* summary.failed, success is true iff failed is empty, and every branch
\* ran whatever the others did.
C32_EachPlatformOnce ==
  postTask.pc = "resolved" =>
    /\ \A p \in Requested :
         Count(postTask.successful, p) + Count(postTask.failed, p) = 1
    /\ SummaryAddsUp
    /\ EveryBranchRan

\* C32: for every post call that returns a result, each entry of the
\* platform list appears once, in successful when its branch was fulfilled
\* and in failed when it was rejected, so a platform listed n times appears
\* n times over the two lists and may appear in both; no other platform
\* appears; summary.total = number of entries = summary.successful +
\* summary.failed, success is true iff failed is empty, and every branch ran
\* to its own end whatever the others did.
C32_EachEntryOnce ==
  postTask.pc = "resolved" =>
    /\ \A p \in Requested :
         /\ Count(postTask.successful, p) = Cardinality(BranchesOf(p, "fulfilled"))
         /\ Count(postTask.failed, p) = Cardinality(BranchesOf(p, "rejected"))
         /\ Count(postTask.successful, p) + Count(postTask.failed, p)
              = Count(postTask.platforms, p)
    /\ \A i \in DOMAIN postTask.successful : postTask.successful[i] \in Requested
    /\ \A i \in DOMAIN postTask.failed : postTask.failed[i] \in Requested
    /\ SummaryAddsUp
    /\ EveryBranchRan

\* a post of twitter twice whose first branch failed and whose second
\* branch succeeded: twitter is in both lists
C32_Witness ==
  /\ postTask.pc = "resolved"
  /\ postTask.platforms = <<"twitter", "twitter">>
  /\ BranchOutcome(1) = "rejected"
  /\ BranchOutcome(2) = "fulfilled"
  /\ postTask.successful = <<"twitter">>
  /\ postTask.failed = <<"twitter">>
  /\ ~postTask.success
  /\ postTask.summary = [total |-> 2, successful |-> 1, failed |-> 1]

----------------------------------------------------------------------------
(* HookSpec: hooks are registered and post calls are made, one after the    *)
(* other, for one supported or one unsupported platform.                    *)

HookBehaviours == {"ok", "throws"}

HookLists == {<<"twitter">>, <<UnsupportedPlatform>>}

HookNext ==
  \/ Initialize
  \/ \E event \in HookEvents, behaviour \in HookBehaviours : On(event, behaviour)
  \/ \E platforms \in HookLists : PluginPostBegin(platforms)
  \/ \E h \in 1..MaxHooks : HookSettles(h)
  \/ PostBranchNoToken(1)
  \/ \E c \in Calls : PostBranchCall(1, c)
  \/ \E c \in Calls : AttemptBegin(c)
  \/ \E c \in Calls : PlatformCallSucceeds(c)
  \/ \E c \in Calls : PlatformCallFails(c, MsgUnauthorized)
  \/ PostSettle

HookSpec == PostInit /\ [][HookNext]_vars

\* the post call has emitted the event
Emitted(event) == \E i \in DOMAIN postTask.events : postTask.events[i] = event

\* a branch of the post call has started
BranchStarted == postTask.state # <<>>

\* every before-post hook has completed before the first platform attempt
\* starts, after-post is emitted only after every attempt has settled, and
\* a before-post hook that throws prevents all platform posts
HooksInOrder ==
  /\ BranchStarted => postTask.done = 1..postTask.before
  /\ Emitted("after-post") =>
       /\ BranchStarted
       /\ \A i \in DOMAIN postTask.platforms : BranchOutcome(i) # "pending"
  /\ "before-post" \in postTask.threw =>
       /\ ~BranchStarted
       /\ ~Emitted("after-post")
  /\ postTask.pc = "before-post" => ~BranchStarted

\* C35 as stated: within one post call every before-post hook has completed
\* before the first platform attempt starts, after-post is emitted only
\* after every attempt has settled, a before-post hook that throws prevents
\* all platform posts, and the call rejects exactly when on-error was
\* emitted, with the error that was caught.
C35_HookOrder ==
  /\ HooksInOrder
  /\ postTask.pc \in {"resolved", "rejected"} =>
       /\ postTask.pc = "rejected" <=> Emitted("on-error")
       /\ postTask.pc = "rejected" => postTask.error = postTask.caught

\* C35: the same, but a post on a plugin that is not initialized rejects
\* with 'Plugin not initialized' without emitting any event, on-error
\* included; every other rejection comes after on-error was emitted, and no
\* call that emitted on-error returns a result; the call rejects with the
\* error that was caught, unless an on-error hook throws, and then with the
\* error of that hook.
C35_HookOrderAmended ==
  /\ HooksInOrder
  /\ postTask.pc = "resolved" => ~Emitted("on-error")
  /\ Emitted("on-error") =>
       /\ postTask.pc \in {"on-error", "rejected"}
       /\ postTask.caught # NoError
  /\ postTask.pc = "rejected" =>
       IF postTask.events = <<>>
       THEN postTask.error = PluginNotInitializedError
       ELSE /\ Emitted("on-error")
            /\ postTask.error = IF "on-error" \in postTask.threw
                                THEN HookError("on-error")
                                ELSE postTask.caught

\* a post on an initialized plugin whose before-post hook threw: on-error
\* was emitted to a hook that completed, the hook's error was thrown again
\* and no branch started
C35_Witness ==
  /\ isInitialized
  /\ hooks["before-post"] = <<"throws">>
  /\ hooks["on-error"] = <<"ok">>
  /\ postTask.pc = "rejected"
  /\ postTask.platforms = <<"twitter">>
  /\ postTask.events = <<"before-post", "on-error">>
  /\ postTask.threw = {"before-post"}
  /\ postTask.error = HookError("before-post")
  /\ ~BranchStarted
  /\ \A c \in Calls : calls[c].pc = "idle"

====
